---------------------------- MODULE Spec2Model ----------------------------
(***************************************************************************)
(* Verification model of the device-stream relay and session core.        *)
(*                                                                         *)
(*   - AsyncMutex / DeviceMutexManager   (packages/core/src/protocol.ts)   *)
(*   - IOSDeviceService.connect / disconnect      (ios-device service)     *)
(*   - MjpegStreamClient 'data' handler           (ios-device mjpeg)       *)
(*   - SimulatorStreamService      (packages/ios-simulator stream-service) *)
(*                                                                         *)
(* Each component has its own specification (SpecLock, SpecIOS,            *)
(* SpecFramer, SpecRelay); a specification leaves the variables of the     *)
(* other components at their initial values.                               *)
(***************************************************************************)
EXTENDS Integers, Sequences, FiniteSets, TLC

(***************************************************************************)
(* Bounds of the model.                                                    *)
(***************************************************************************)
\* number of withDeviceLock / connect / disconnect calls made by clients
NumTasks == 3

\* the device ids (serials) the clients use
Devices == {"devA", "devB"}

\* values an operation can throw
ErrVals == {"E1", "E2"}

Tasks == 1..NumTasks

\* AsyncMutex objects on the heap: every call allocates at most one
Mutexes == 1..NumTasks

NoMutex == 0

NoDev == "none"

VARIABLES
  \* ---- DeviceMutexManager / AsyncMutex ----
  mutexes,      \* DeviceMutexManager.mutexes : device id -> AsyncMutex (NoMutex: no entry)
  nmutex,       \* number of AsyncMutex objects allocated so far
  locked,       \* AsyncMutex.locked, per object
  waitQueue,    \* AsyncMutex.waitQueue, per object: the tasks whose resolve is queued
  \* ---- the asynchronous calls (one task per call) ----
  ncalls,       \* number of calls made so far; the k-th call is task k
  pc,           \* position of each call inside withLock
  tkind,        \* what the call runs: "op", "connect", "disconnect"
  tdev,         \* the device id the call was submitted with
  tmutex,       \* the AsyncMutex object the call's withLock runs on
  step,         \* position inside the operation's body (between its awaits)
  outcome,      \* how fn settled: [kind |-> "ok"/"err", val |-> ...]
  result,       \* what the caller of withDeviceLock received
  qpos,         \* history: length of waitQueue after the call pushed itself (0: not queued)
  \* ---- IOSDeviceService ----
  wdaSessions,  \* IOSDeviceService.wdaSessions
  connected,    \* BaseDeviceService.connections (isConnected)
  \* ---- MjpegStreamClient.connect, the response's 'data' handler ----
  stream,       \* history: every byte the response has delivered so far
  buffer,       \* let buffer
  frameStarted, \* let frameStarted
  frameStart,   \* let frameStart
  frames,       \* the 'frame' events emitted: [data, at]; `at` is history, the
                \* offset in `stream` of the frame's first byte
  dropped,      \* history: number of bytes sliced off the front of buffer so far
  splitMarker,  \* history: a chunk boundary fell between the two bytes of a marker
  \* ---- SimulatorStreamService and its WebSockets ----
  nsock,        \* number of WebSockets accepted so far; the k-th is socket k
  role,         \* "device": given to handleDeviceConnection, "browser": to handleBrowserConnection
  sdev,         \* the deviceId the socket was accepted with
  readyState,   \* ws.readyState
  inbox,        \* what the service has sent on the socket with ws.send, in order
  connections,  \* SimulatorStreamService.connections : deviceId -> SimulatorConnection
  browserSets,  \* the Set<WebSocket> objects that `browsers` fields refer to
  nsets,        \* number of Set objects allocated so far
  bset,         \* per browser socket: the `browsers` Set of the conn its handlers closed over
  evictTimers,  \* per deviceId: deadlines of the pending timers set by browser
                \* 'close' handlers, in the order they were set
  now,          \* the clock, in ms
  emptiedAt,    \* history, per browsers Set: when it last became empty
  closeRuns,    \* history, per browser socket: runs of its 'close' handler
  broken,       \* per socket: its link has failed; what is sent on it is lost and
                \* the failure is reported later by 'error' and 'close' events
  sent,         \* history: the messages each producer has sent, in order
  joinMeta,     \* history: conn.metadata when the browser was attached
  joinFrames,   \* history: frames already sent for the device when the browser was attached
  pingTimer,        \* socket -> "none" | "active" | "cleared": its ping interval
  \* ---- SimulatorStreamService: polling fallback ----
  npoll,            \* number of startPollingFallback calls so far; the k-th is call k
  pollDev,          \* per call: deviceId
  pollWs,           \* per call: ws
  pollPhase,        \* per call: "none", "shot" (awaiting the initial screenshot),
                    \* "running" (interval set), "cleared" (interval cleared)
  pollCount,        \* per call: let frameCount
  pollBusy,         \* per call: an interval callback awaits its screenshot
  pollingIntervals, \* SimulatorStreamService.pollingIntervals : deviceId -> call (0: none)
  \* ---- SimulatorStreamService: 'message' handlers ----
  rawLog,           \* history, per socket: "ok" / "bad" for each message it delivered
  uncaught,         \* an exception has escaped a 'message' handler
  \* ---- SimulatorStreamService.cleanup ----
  cleanups,         \* history: number of cleanup() calls
  \* ---- ScrcpyService ----
  nscr,             \* startStream calls made so far
  scSerial,         \* call -> serial
  scPhase,          \* call -> "none" | "stopping" | "setup" | "piping" | "draining"
                    \*         | "stopped" | "failed"
  scClient,         \* call -> "none" | "running" | "closed": its AdbScrcpyClient
  scWs,             \* call -> readyState of the WebSocket it was given
  scOut,            \* call -> what it has sent on that WebSocket
  scRead,           \* history: call -> the packets its pipe read while the socket was open
  scHad,            \* call -> the session its pending stopStream found (0: none)
  sessions,         \* ScrcpyService.sessions : serial -> call (0: none)
  \* ---- protocol.ts ----
  created,          \* what createMetadataMessage returned last (<<>>: not called)
  \* ---- MjpegStreamClient connections ----
  activeConnections, \* MjpegStreamClient.activeConnections : the udids it maps
  nreq,             \* http.get requests made so far
  reqUdid,          \* request -> udid of the connect call that made it
  reqState,         \* request -> "none", "pending", "rejected", "streaming", or how
                    \* it was over: "ended", "failed", "refused", "destroyed"
  emitted,          \* the events the client has emitted, in order
  \* ---- QuickTimeCapture ----
  activeProcesses,  \* QuickTimeCapture.activeProcesses : the udids it maps
  activeWatchers,   \* QuickTimeCapture.activeWatchers : the udids it maps
  ncap,             \* qvh processes spawned so far
  capUdid,          \* capture -> udid
  capBy,            \* capture -> who awaits startCapture: "direct", "mirror"
  capProc,          \* capture -> its qvh process: "none", "running", "killed", "exited"
  capPhase,         \* capture -> "none", "delay", "waiting", "watching", "abandoned"
  watcher,          \* capture -> its fs.FSWatcher: "none", "open", "closed"
  stoppedOnce,      \* captures whose once('stopped') listener of startWatching is registered
  \* ---- IOSDeviceService mirroring ----
  streamMode,       \* IOSDeviceService.streamMode : serial -> "mjpeg", "quicktime", "unset"
  \* ---- retryWithBackoff (wda-client.ts) ----
  rtPhase,          \* "idle", "calling" (fn awaited), "sleeping", "returned", "thrown"
  rtMax,            \* the maxRetries argument
  rtBase,           \* the baseDelay argument
  attempt,          \* the loop variable
  rtOutcomes,       \* how the calls of fn settled, in order
  rtDelays,         \* the delays that were waited, in order
  lastError,        \* the variable lastError ("none": null)
  rtResult          \* what retryWithBackoff returned or threw

lockVars == <<mutexes, nmutex, locked, waitQueue, ncalls, pc, tkind, tdev,
              tmutex, step, outcome, result, qpos>>

iosVars == <<wdaSessions, connected>>

framerVars == <<stream, buffer, frameStarted, frameStart, frames, dropped, splitMarker>>

relayVars == <<nsock, role, sdev, readyState, inbox, connections, browserSets,
               nsets, bset, evictTimers, now, emptiedAt, closeRuns, broken,
               sent, joinMeta, joinFrames, pingTimer>>

pollVars == <<npoll, pollDev, pollWs, pollPhase, pollCount, pollBusy,
              pollingIntervals>>

protoVars == <<rawLog, uncaught>>

scrcpyVars == <<nscr, scSerial, scPhase, scClient, scWs, scOut, scRead, scHad,
                sessions>>

mjpegVars == <<activeConnections, nreq, reqUdid, reqState, emitted>>

qtVars == <<activeProcesses, activeWatchers, ncap, capUdid, capBy, capProc, capPhase,
            watcher, stoppedOnce>>

\* the services modelled after the relays
retryVars == <<rtPhase, rtMax, rtBase, attempt, rtOutcomes, rtDelays, lastError, rtResult>>

lateVars == <<mjpegVars, qtVars, streamMode, retryVars>>

\* the relays and what was modelled before them
early == <<lockVars, iosVars, framerVars, relayVars, pollVars, protoVars, cleanups,
           scrcpyVars, created>>

\* what the MJPEG client leaves alone
notMjpeg == <<early, qtVars, streamMode, retryVars>>

\* what QuickTimeCapture leaves alone
notQt == <<early, mjpegVars, retryVars>>

\* what the mutex and device-service actions leave alone
notLock == <<framerVars, relayVars, pollVars, protoVars, cleanups, scrcpyVars, created, lateVars>>

\* what the framer leaves alone
notFramer == <<lockVars, iosVars, relayVars, pollVars, protoVars, cleanups, scrcpyVars, created, lateVars>>

\* what the stream service leaves alone
notRelay == <<lockVars, iosVars, framerVars>>

NoOutcome == [kind |-> "none", val |-> "none"]

InitLock ==
  /\ mutexes = [d \in Devices |-> NoMutex]
  /\ nmutex = 0
  /\ locked = [m \in Mutexes |-> FALSE]
  /\ waitQueue = [m \in Mutexes |-> <<>>]
  /\ ncalls = 0
  /\ pc = [t \in Tasks |-> "idle"]
  /\ tkind = [t \in Tasks |-> "none"]
  /\ tdev = [t \in Tasks |-> NoDev]
  /\ tmutex = [t \in Tasks |-> NoMutex]
  /\ step = [t \in Tasks |-> "none"]
  /\ outcome = [t \in Tasks |-> NoOutcome]
  /\ result = [t \in Tasks |-> NoOutcome]
  /\ qpos = [t \in Tasks |-> 0]

InitIOS ==
  /\ wdaSessions = [d \in Devices |-> FALSE]
  /\ connected = [d \in Devices |-> FALSE]

(***************************************************************************)
(* DeviceMutexManager.getMutex: the map key used for a device id.          *)
(***************************************************************************)
MutexKeyShared(d) == "devA"

MutexKey(d) == d

\* getMutex(deviceId): the existing entry, or a freshly allocated AsyncMutex
GetMutex(d) ==
  IF mutexes[MutexKey(d)] # NoMutex THEN mutexes[MutexKey(d)] ELSE nmutex + 1

GetMutexEffect(d) ==
  IF mutexes[MutexKey(d)] # NoMutex
  THEN /\ UNCHANGED <<mutexes, nmutex>>
  ELSE /\ mutexes' = [mutexes EXCEPT ![MutexKey(d)] = nmutex + 1]
       /\ nmutex' = nmutex + 1

(***************************************************************************)
(* AsyncMutex.acquire: the promise executor runs synchronously.  A free    *)
(* lock is taken and the promise resolved ("granted": the continuation of  *)
(* `await this.acquire()` is a pending microtask); a held lock queues the  *)
(* resolve callback.                                                       *)
(***************************************************************************)
AcquireNoLock(m, t) ==
  IF ~locked[m]
  THEN /\ pc' = [pc EXCEPT ![t] = "granted"]
       /\ UNCHANGED <<locked, waitQueue, qpos>>
  ELSE /\ waitQueue' = [waitQueue EXCEPT ![m] = Append(@, t)]
       /\ qpos' = [qpos EXCEPT ![t] = Len(waitQueue[m]) + 1]
       /\ pc' = [pc EXCEPT ![t] = "waiting"]
       /\ UNCHANGED locked

Acquire(m, t) ==
  IF ~locked[m]
  THEN /\ locked' = [locked EXCEPT ![m] = TRUE]
       /\ pc' = [pc EXCEPT ![t] = "granted"]
       /\ UNCHANGED <<waitQueue, qpos>>
  ELSE /\ waitQueue' = [waitQueue EXCEPT ![m] = Append(@, t)]
       /\ qpos' = [qpos EXCEPT ![t] = Len(waitQueue[m]) + 1]
       /\ pc' = [pc EXCEPT ![t] = "waiting"]
       /\ UNCHANGED locked

(***************************************************************************)
(* AsyncMutex.release: waitQueue.shift(); hand the lock to that waiter     *)
(* (locked stays true) or, with no waiter, unlock.  `pcs` is the pc        *)
(* function after the releasing task's own update.                         *)
(***************************************************************************)
\* waitQueue.shift(): the oldest waiter and the remaining queue
Pop(q) == [next |-> q[Len(q)], rest |-> SubSeq(q, 1, Len(q) - 1)]

Shift(q) == [next |-> Head(q), rest |-> Tail(q)]

Release(m, pcs) ==
  IF waitQueue[m] # <<>>
  THEN /\ waitQueue' = [waitQueue EXCEPT ![m] = Shift(@).rest]
       /\ pc' = [pcs EXCEPT ![Shift(waitQueue[m]).next] = "granted"]
       /\ UNCHANGED locked
  ELSE /\ locked' = [locked EXCEPT ![m] = FALSE]
       /\ pc' = pcs
       /\ UNCHANGED waitQueue

(***************************************************************************)
(* DeviceMutexManager.withDeviceLock(deviceId, fn), up to the first await  *)
(* of AsyncMutex.withLock: getMutex, then acquire.                         *)
(***************************************************************************)
WithDeviceLock(t, d, kind) ==
  /\ pc[t] = "idle"
  /\ t = ncalls + 1
  /\ ncalls' = ncalls + 1
  /\ tkind' = [tkind EXCEPT ![t] = kind]
  /\ tdev' = [tdev EXCEPT ![t] = d]
  /\ tmutex' = [tmutex EXCEPT ![t] = GetMutex(d)]
  /\ GetMutexEffect(d)
  /\ Acquire(GetMutex(d), t)
  /\ UNCHANGED <<step, outcome, result>>

\* a client submits an opaque operation
CallOp(t) ==
  /\ \E d \in Devices : WithDeviceLock(t, d, "op")
  /\ UNCHANGED iosVars
  /\ UNCHANGED notLock

(***************************************************************************)
(* withLock after `await this.acquire()`: fn() is invoked and runs to its  *)
(* first await.                                                            *)
(***************************************************************************)
FirstStep(kind) ==
  CASE kind = "connect" -> "getDeviceInfo"
    [] kind = "disconnect" -> "deleteSession"
    [] OTHER -> "body"

Start(t) ==
  /\ pc[t] = "granted"
  /\ pc' = [pc EXCEPT ![t] = "running"]
  /\ step' = [step EXCEPT ![t] = FirstStep(tkind[t])]
  /\ UNCHANGED <<mutexes, nmutex, locked, waitQueue, ncalls, tkind, tdev,
                 tmutex, outcome, result, qpos>>
  /\ UNCHANGED iosVars
  /\ UNCHANGED notLock

\* fn settles: the body is over, `finally` has not run yet
Settle(t, o) ==
  /\ pc' = [pc EXCEPT ![t] = "settled"]
  /\ step' = [step EXCEPT ![t] = "none"]
  /\ outcome' = [outcome EXCEPT ![t] = o]

\* the opaque operation returns a value or throws one of ErrVals
OpReturns(t) ==
  /\ pc[t] = "running" /\ tkind[t] = "op"
  /\ Settle(t, [kind |-> "ok", val |-> "value"])
  /\ UNCHANGED <<mutexes, nmutex, locked, waitQueue, ncalls, tkind, tdev,
                 tmutex, result, qpos>>
  /\ UNCHANGED iosVars
  /\ UNCHANGED notLock

OpThrows(t) ==
  /\ pc[t] = "running" /\ tkind[t] = "op"
  /\ \E e \in ErrVals : Settle(t, [kind |-> "err", val |-> e])
  /\ UNCHANGED <<mutexes, nmutex, locked, waitQueue, ncalls, tkind, tdev,
                 tmutex, result, qpos>>
  /\ UNCHANGED iosVars
  /\ UNCHANGED notLock

(***************************************************************************)
(* withLock's `try { return await fn() } finally { this.release() }`:      *)
(* the lock is released on both exits and fn's settlement is the caller's. *)
(***************************************************************************)
FinallySkipOnThrow(t) ==
  /\ pc[t] = "settled"
  /\ result' = [result EXCEPT ![t] = outcome[t]]
  /\ IF outcome[t].kind = "err"
     THEN /\ pc' = [pc EXCEPT ![t] = "done"]
          /\ UNCHANGED <<locked, waitQueue>>
     ELSE Release(tmutex[t], [pc EXCEPT ![t] = "done"])
  /\ UNCHANGED <<mutexes, nmutex, ncalls, tkind, tdev, tmutex, step, outcome, qpos>>
  /\ UNCHANGED iosVars
  /\ UNCHANGED notLock

Finally(t) ==
  /\ pc[t] = "settled"
  /\ result' = [result EXCEPT ![t] = outcome[t]]
  /\ Release(tmutex[t], [pc EXCEPT ![t] = "done"])
  /\ UNCHANGED <<mutexes, nmutex, ncalls, tkind, tdev, tmutex, step, outcome, qpos>>
  /\ UNCHANGED iosVars
  /\ UNCHANGED notLock

(***************************************************************************)
(* IOSDeviceService.connect: the body run under the device lock.  Every    *)
(* await is a step; a failure anywhere is caught and rethrown wrapped      *)
(* ("Failed to connect iOS device: ...").                                  *)
(***************************************************************************)
ConnectFailed == [kind |-> "err", val |-> "Failed to connect iOS device"]

Ok == [kind |-> "ok", val |-> "value"]

IosFrame == <<mutexes, nmutex, locked, waitQueue, ncalls, tkind, tdev, tmutex,
              result, qpos>>

CallConnect(t) ==
  /\ \E d \in Devices : WithDeviceLock(t, d, "connect")
  /\ UNCHANGED iosVars
  /\ UNCHANGED notLock

CallDisconnect(t) ==
  /\ \E d \in Devices : WithDeviceLock(t, d, "disconnect")
  /\ UNCHANGED iosVars
  /\ UNCHANGED notLock

\* await goIOSClient.getDeviceInfo(serial): the device, or null -> throw
ConnectGetDeviceInfo(t) ==
  /\ pc[t] = "running" /\ step[t] = "getDeviceInfo"
  /\ \/ /\ step' = [step EXCEPT ![t] = "pairDevice"]
        /\ UNCHANGED <<pc, outcome>>
     \/ Settle(t, ConnectFailed)
  /\ UNCHANGED IosFrame
  /\ UNCHANGED iosVars
  /\ UNCHANGED notLock

\* await goIOSClient.pairDevice(serial): a failure is only logged
ConnectPairDevice(t) ==
  /\ pc[t] = "running" /\ step[t] = "pairDevice"
  /\ step' = [step EXCEPT ![t] = "createSession"]
  /\ UNCHANGED <<pc, outcome>>
  /\ UNCHANGED IosFrame
  /\ UNCHANGED iosVars
  /\ UNCHANGED notLock

\* wdaSessions.set(serial, true); markConnected(serial, ...); fn returns
ConnectSucceeds(t) ==
  /\ wdaSessions' = [wdaSessions EXCEPT ![tdev[t]] = TRUE]
  /\ connected' = [connected EXCEPT ![tdev[t]] = TRUE]
  /\ Settle(t, Ok)

\* await webDriverAgentClient.createSession(serial): on failure install WDA
ConnectCreateSession(t) ==
  /\ pc[t] = "running" /\ step[t] = "createSession"
  /\ \/ ConnectSucceeds(t)
     \/ /\ step' = [step EXCEPT ![t] = "installWebDriverAgent"]
        /\ UNCHANGED <<pc, outcome>>
        /\ UNCHANGED iosVars
  /\ UNCHANGED IosFrame
  /\ UNCHANGED notLock

\* await goIOSClient.installWebDriverAgent(serial), then the 3 s pause
ConnectInstallWDA(t) ==
  /\ pc[t] = "running" /\ step[t] = "installWebDriverAgent"
  /\ \/ /\ step' = [step EXCEPT ![t] = "retrySession"]
        /\ UNCHANGED <<pc, outcome>>
     \/ Settle(t, ConnectFailed)
  /\ UNCHANGED IosFrame
  /\ UNCHANGED iosVars
  /\ UNCHANGED notLock

\* the second await webDriverAgentClient.createSession(serial)
ConnectRetrySession(t) ==
  /\ pc[t] = "running" /\ step[t] = "retrySession"
  /\ \/ ConnectSucceeds(t)
     \/ /\ Settle(t, ConnectFailed)
        /\ UNCHANGED iosVars
  /\ UNCHANGED IosFrame
  /\ UNCHANGED notLock

(***************************************************************************)
(* IOSDeviceService.disconnect: deleteSession and cleanup swallow their    *)
(* own failures; after cleanup the body marks the device disconnected and  *)
(* calls removeMutex(serial) while it still holds the lock.                *)
(***************************************************************************)
\* await webDriverAgentClient.deleteSession(serial); wdaSessions.delete(serial)
DisconnectDeleteSession(t) ==
  /\ pc[t] = "running" /\ step[t] = "deleteSession"
  /\ wdaSessions' = [wdaSessions EXCEPT ![tdev[t]] = FALSE]
  /\ step' = [step EXCEPT ![t] = "cleanup"]
  /\ UNCHANGED <<pc, outcome, connected>>
  /\ UNCHANGED IosFrame
  /\ UNCHANGED notLock

\* DeviceMutexManager.removeMutex(deviceId): mutexes.delete(deviceId)
RemoveMutex(d) == [mutexes EXCEPT ![MutexKey(d)] = NoMutex]

\* await goIOSClient.cleanup(serial); markDisconnected; removeMutex; fn returns
DisconnectCleanup(t) ==
  /\ pc[t] = "running" /\ step[t] = "cleanup"
  /\ connected' = [connected EXCEPT ![tdev[t]] = FALSE]
  /\ mutexes' = RemoveMutex(tdev[t])
  /\ Settle(t, Ok)
  /\ UNCHANGED <<nmutex, locked, waitQueue, ncalls, tkind, tdev, tmutex,
                 result, qpos, wdaSessions>>
  /\ UNCHANGED notLock

(***************************************************************************)
(* IOSDeviceService.tap / typeText / pressKey / screenshot / swipe /       *)
(* scroll / launchApp / terminateApp: assertConnected(serial), then the    *)
(* WebDriverAgent request is awaited.  No lock is taken.                   *)
(***************************************************************************)
NotConnected == [kind |-> "err", val |-> "Device is not connected"]

CallAutomation(t) ==
  /\ pc[t] = "idle"
  /\ t = ncalls + 1
  /\ ncalls' = ncalls + 1
  /\ \E d \in Devices :
       /\ tkind' = [tkind EXCEPT ![t] = "automation"]
       /\ tdev' = [tdev EXCEPT ![t] = d]
       /\ IF connected[d]
          THEN /\ pc' = [pc EXCEPT ![t] = "running"]
               /\ step' = [step EXCEPT ![t] = "wda"]
               /\ UNCHANGED result
          ELSE /\ pc' = [pc EXCEPT ![t] = "done"]
               /\ result' = [result EXCEPT ![t] = NotConnected]
               /\ UNCHANGED step
  /\ UNCHANGED <<mutexes, nmutex, locked, waitQueue, tmutex, outcome, qpos>>
  /\ UNCHANGED iosVars
  /\ UNCHANGED notLock

\* the awaited WebDriverAgent request resolves or rejects
AutomationSettles(t) ==
  /\ pc[t] = "running" /\ tkind[t] = "automation"
  /\ pc' = [pc EXCEPT ![t] = "done"]
  /\ step' = [step EXCEPT ![t] = "none"]
  /\ \E o \in {Ok} \cup {[kind |-> "err", val |-> e] : e \in ErrVals} :
       result' = [result EXCEPT ![t] = o]
  /\ UNCHANGED <<mutexes, nmutex, locked, waitQueue, ncalls, tkind, tdev,
                 tmutex, outcome, qpos>>
  /\ UNCHANGED iosVars
  /\ UNCHANGED notLock

(***************************************************************************)
(* MjpegStreamClient: the MJPEG framer of the response's 'data' handler.   *)
(* Indexes are 0-based as in the source; buf[i+1] is the source's buf[i].  *)
(***************************************************************************)
\* longest stream delivered
MaxLen == 8

FF == 255

D8 == 216

D9 == 217

\* any byte that is part of no marker
Other == 0

Bytes == {FF, D8, D9, Other}

InitFramer ==
  /\ stream = <<>>
  /\ buffer = <<>>
  /\ frameStarted = FALSE
  /\ frameStart = 0
  /\ frames = <<>>
  /\ dropped = 0
  /\ splitMarker = FALSE

\* the scan loop shared by findJpegStart and findJpegEnd:
\* for (i = from; i < buffer.length - 1; i++) if (buf[i] === 0xFF && buf[i+1] === second) return i
RECURSIVE FindMarker(_, _, _)
FindMarker(buf, i, second) ==
  IF i >= Len(buf) - 1 THEN -1
  ELSE IF buf[i + 1] = FF /\ buf[i + 2] = second THEN i
  ELSE FindMarker(buf, i + 1, second)

\* findJpegStart(buffer): index of the first FF D8, or -1
FindJpegStart(buf) == FindMarker(buf, 0, D8)

\* findJpegEnd(buffer, startPos): index of the first FF D9 at or after startPos + 2, or -1
FindJpegEnd(buf, startPos) == FindMarker(buf, startPos + 2, D9)

\* buffer.slice(from, to)
Slice(buf, from, to) == SubSeq(buf, from + 1, to)

\* with no start marker in the buffer: `if (buffer.length > 2) buffer = buffer.slice(-2)`
RetainNone(buf) == <<>>

Retain(buf) == IF Len(buf) > 2 THEN Slice(buf, Len(buf) - 2, Len(buf)) ELSE buf

\* the emitted frame: buffer.slice(frameStart, jpegEnd + 2)
FrameSliceShort(buf, start, jpegEnd) == Slice(buf, start, jpegEnd + 1)

FrameSlice(buf, start, jpegEnd) == Slice(buf, start, jpegEnd + 2)

\* no start marker found: trim the buffer and leave the loop
NoStart(s) ==
  [s EXCEPT !.buffer = Retain(s.buffer),
            !.dropped = s.dropped + Len(s.buffer) - Len(Retain(s.buffer))]

\* end marker found at jpegEnd: emit the frame, advance the buffer past it
Emit(s, jpegEnd) ==
  [s EXCEPT !.frames = Append(s.frames,
                              [data |-> FrameSlice(s.buffer, s.frameStart, jpegEnd),
                               at |-> s.dropped + s.frameStart]),
            !.buffer = Slice(s.buffer, jpegEnd + 2, Len(s.buffer)),
            !.dropped = s.dropped + jpegEnd + 2,
            !.frameStarted = FALSE]

\* the `while (buffer.length > 0)` loop of the 'data' handler
RECURSIVE Drain(_)

\* `if (frameStarted)`: look for the end marker; emit and loop, or break
AfterFindEnd(s, jpegEnd) == IF jpegEnd >= 0 THEN Drain(Emit(s, jpegEnd)) ELSE s

FrameStartedBlock(s) == AfterFindEnd(s, FindJpegEnd(s.buffer, s.frameStart))

\* `if (!frameStarted)`: look for the start marker; mark it, or trim and break
AfterFindStart(s, jpegStart) ==
  IF jpegStart >= 0
  THEN FrameStartedBlock([s EXCEPT !.frameStarted = TRUE, !.frameStart = jpegStart])
  ELSE NoStart(s)

Drain(s) ==
  IF Len(s.buffer) = 0 THEN s
  ELSE IF ~s.frameStarted THEN AfterFindStart(s, FindJpegStart(s.buffer))
  ELSE FrameStartedBlock(s)

\* the handler on one chunk: buffer = Buffer.concat([buffer, chunk]); the loop
DataHandler(s, chunk) == Drain([s EXCEPT !.buffer = s.buffer \o chunk])

FramerState ==
  [buffer |-> buffer, frameStarted |-> frameStarted, frameStart |-> frameStart,
   frames |-> frames, dropped |-> dropped]

FreshFramer ==
  [buffer |-> <<>>, frameStarted |-> FALSE, frameStart |-> 0,
   frames |-> <<>>, dropped |-> 0]

\* the chunk starts with the second byte of a marker whose FF ended the last chunk
SplitsMarker(chunk) ==
  /\ stream # <<>>
  /\ stream[Len(stream)] = FF
  /\ chunk[1] \in {D8, D9}

\* res.on('data', chunk)
OnData ==
  /\ Len(stream) < MaxLen
  /\ \E n \in 1..(MaxLen - Len(stream)) : \E chunk \in [1..n -> Bytes] :
       \E s \in {DataHandler(FramerState, chunk)} :
         /\ stream' = stream \o chunk
         /\ buffer' = s.buffer
         /\ frameStarted' = s.frameStarted
         /\ frameStart' = s.frameStart
         /\ frames' = s.frames
         /\ dropped' = s.dropped
         /\ splitMarker' = (splitMarker \/ SplitsMarker(chunk))
  /\ UNCHANGED notFramer

(***************************************************************************)
(* SimulatorStreamService: the WebSocket relay between one producer (the   *)
(* MirrorKit app) and the browsers of a device.                            *)
(***************************************************************************)
\* WebSockets accepted during a run
MaxSock == 3

\* messages the producers send during a run, all together
MaxSend == 2

RelayDevices == {"sim1"}

Sockets == 1..MaxSock

SetIds == 1..MaxSock

NoConn == [device |-> 0]

NoMeta == [width |-> 0]

NoSet == 0

\* a browsers Set that has not become empty yet
NoTime == -1

\* setTimeout(..., 30000)
GraceWindow == 30000

\* the clock runs for MaxTime grace windows
MaxTime == 1

\* cleanup() calls in a run
MaxStop == 1

\* the metadata a MirrorKit producer announces: two simulator models, one
\* for the odd and one for the even sockets
MetaOf(p) ==
  IF p % 2 = 1 THEN [width |-> 1170, height |-> 2532, fps |-> 30]
  ELSE [width |-> 1179, height |-> 2556, fps |-> 60]

InitRelay ==
  /\ nsock = 0
  /\ role = [s \in Sockets |-> "none"]
  /\ sdev = [s \in Sockets |-> NoDev]
  /\ readyState = [s \in Sockets |-> "NONE"]
  /\ inbox = [s \in Sockets |-> <<>>]
  /\ connections = [d \in RelayDevices |-> NoConn]
  /\ browserSets = [b \in SetIds |-> {}]
  /\ nsets = 0
  /\ bset = [s \in Sockets |-> NoSet]
  /\ evictTimers = [d \in RelayDevices |-> <<>>]
  /\ now = 0
  /\ closeRuns = [s \in Sockets |-> 0]
  /\ broken = [s \in Sockets |-> FALSE]
  /\ emptiedAt = [b \in SetIds |-> NoTime]
  /\ sent = [s \in Sockets |-> <<>>]
  /\ joinMeta = [s \in Sockets |-> NoMeta]
  /\ joinFrames = [s \in Sockets |-> 0]
  /\ pingTimer = [s \in Sockets |-> "none"]

\* { type: 'metadata', codec: 1, codecName: 'mjpeg', ...conn.metadata }
MetadataEnvelope(m) ==
  [type |-> "metadata", codec |-> 1, codecName |-> "mjpeg",
   width |-> m.width, height |-> m.height, fps |-> m.fps]

\* { type: 'device_disconnected', deviceId }
DisconnectedEnvelope(d) == [type |-> "device_disconnected", deviceId |-> d]

\* what MirrorKit sends: a metadata message or a frame message
MetadataMessage(m) ==
  [type |-> "metadata", width |-> m.width, height |-> m.height, fps |-> m.fps]

FrameMessage(p, pts) == [type |-> "frame", data |-> p, pts |-> pts, codec |-> "mjpeg"]

FramesIn(log) == SelectSeq(log, LAMBDA e : e.type = "frame")

\* frames the producers of device d have sent so far
RECURSIVE SumFrames(_, _)
SumFrames(d, k) ==
  IF k = 0 THEN 0
  ELSE SumFrames(d, k - 1) + (IF sdev[k] = d THEN Len(FramesIn(sent[k])) ELSE 0)

\* ws.send on socket s reaches the peer
Delivers(s) == readyState[s] = "OPEN" /\ ~broken[s]

\* browsers.forEach(b => { if (b.readyState === WebSocket.OPEN) b.send(env) }):
\* a forEach that stops at the first browser whose send fails (a Set is
\* walked in insertion order, the order of the socket numbers)
BroadcastUntilFailure(targets, env) ==
  LET failing == {f \in targets : readyState[f] = "OPEN" /\ broken[f]}
  IN [s \in Sockets |->
        IF s \in targets /\ Delivers(s) /\ (\A f \in failing : s < f)
        THEN Append(inbox[s], env) ELSE inbox[s]]

Broadcast(targets, env) ==
  [s \in Sockets |->
     IF s \in targets /\ Delivers(s) THEN Append(inbox[s], env) ELSE inbox[s]]

\* startPollingFallback calls during a run
MaxPoll == 2

PollCalls == 1..MaxPoll

\* const targetFps = 15
TargetFps == 15

InitPolling ==
  /\ npoll = 0
  /\ pollDev = [k \in PollCalls |-> NoDev]
  /\ pollWs = [k \in PollCalls |-> 0]
  /\ pollPhase = [k \in PollCalls |-> "none"]
  /\ pollCount = [k \in PollCalls |-> 0]
  /\ pollBusy = [k \in PollCalls |-> FALSE]
  /\ pollingIntervals = [d \in RelayDevices |-> 0]

\* ScrcpyService: the serials, the startStream calls of a run
Serials == {"emu1"}

MaxScr == 2

ScrCalls == 1..MaxScr

\* ScrcpyVideoCodecId of @yume-chan/scrcpy, the values of
\* videoStream.metadata.codec
ScrcpyVideoCodecId == [H264 |-> 1748121140, H265 |-> 1748121141, AV1 |-> 6387249]

NoCodec == -1

\* videoStream.metadata?.codec: a codec id, or undefined
ScrcpyCodecs ==
  {ScrcpyVideoCodecId.H264, ScrcpyVideoCodecId.H265, ScrcpyVideoCodecId.AV1, NoCodec}

\* videoStream.width, videoStream.height
ScrcpySizes == {[width |-> 1080, height |-> 2400]}

RECURSIVE LimbDigits(_), NoLeadingZeros(_), ScTotalRead(_)

InitScrcpy ==
  /\ nscr = 0
  /\ scSerial = [k \in ScrCalls |-> NoDev]
  /\ scPhase = [k \in ScrCalls |-> "none"]
  /\ scClient = [k \in ScrCalls |-> "none"]
  /\ scWs = [k \in ScrCalls |-> "NONE"]
  /\ scOut = [k \in ScrCalls |-> <<>>]
  /\ scRead = [k \in ScrCalls |-> <<>>]
  /\ scHad = [k \in ScrCalls |-> 0]
  /\ sessions = [sr \in Serials |-> 0]

InitProto ==
  /\ rawLog = [s \in Sockets |-> <<>>]
  /\ uncaught = FALSE

\* stopPollingFallback(deviceId): clear and forget the interval in the map
Cleared(d) ==
  IF pollingIntervals[d] # 0
  THEN [pollPhase EXCEPT ![pollingIntervals[d]] = "cleared"]
  ELSE pollPhase

StopPollingFallback(d) ==
  /\ pollingIntervals' = [pollingIntervals EXCEPT ![d] = 0]
  /\ pollPhase' = Cleared(d)

\* the 'close' listeners startPollingFallback has registered on socket b:
\* each calls stopPollingFallback(deviceId)
PollingCloseListeners(b) ==
  LET ls == {k \in PollCalls : pollWs[k] = b /\ pollPhase[k] \in {"running", "cleared"}}
  IN IF ls = {}
     THEN UNCHANGED <<pollingIntervals, pollPhase>>
     ELSE StopPollingFallback(sdev[b])

\* `if (existing?.device.readyState === WebSocket.OPEN) existing.device.close()`
CloseExisting(existing) ==
  IF existing # NoConn /\ readyState[existing.device] = "OPEN"
  THEN [readyState EXCEPT ![existing.device] = "CLOSING"]
  ELSE readyState

(***************************************************************************)
(* handleDeviceConnection(ws, deviceId): close the session's open device   *)
(* socket, install a new SimulatorConnection that keeps the existing       *)
(* browsers Set (metadata unset, frameCount 0).                            *)
(***************************************************************************)
\* startPingInterval(ws, deviceId): setInterval(..., 30000)
StartPingInterval(ws) == [pingTimer EXCEPT ![ws] = "active"]

\* the interval's test that always passes
PingAnyState(ws) == TRUE

\* `if (ws.readyState === WebSocket.OPEN)` of the ping interval
PingOpen(ws) == readyState[ws] = "OPEN"

HandleDeviceConnection(ws, d) ==
  /\ ws = nsock + 1
  /\ ws <= MaxSock
  /\ StopPollingFallback(d)
  /\ LET existing == connections[d]
         fresh == existing = NoConn
         set == IF fresh THEN nsets + 1 ELSE existing.browsers
     IN /\ readyState' = [CloseExisting(existing) EXCEPT ![ws] = "OPEN"]
        /\ connections' = [connections EXCEPT ![d] =
             [device |-> ws, browsers |-> set, metadata |-> NoMeta, frameCount |-> 0]]
        /\ nsets' = IF fresh THEN nsets + 1 ELSE nsets
  /\ nsock' = ws
  /\ role' = [role EXCEPT ![ws] = "device"]
  /\ sdev' = [sdev EXCEPT ![ws] = d]
  /\ UNCHANGED <<inbox, browserSets, bset, evictTimers, now, emptiedAt, sent,
                 joinMeta, joinFrames>>
  /\ pingTimer' = StartPingInterval(ws)
  /\ UNCHANGED closeRuns
  /\ UNCHANGED <<npoll, pollDev, pollWs, pollCount, pollBusy>>
  /\ UNCHANGED broken
  /\ UNCHANGED protoVars
  /\ UNCHANGED cleanups
  /\ UNCHANGED <<scrcpyVars, created, lateVars>>
  /\ UNCHANGED notRelay

\* `if (conn.metadata) ws.send(JSON.stringify({ type: 'metadata', ... }))`
NoReplay(ws, metadata) == inbox

ReplayMetadata(ws, metadata) ==
  IF metadata # NoMeta
  THEN [inbox EXCEPT ![ws] = Append(@, MetadataEnvelope(metadata))]
  ELSE inbox

(***************************************************************************)
(* handleBrowserConnection(ws, deviceId): create a placeholder session     *)
(* (device: ws) if there is none, add ws to its browsers, replay the       *)
(* cached metadata.                                                        *)
(***************************************************************************)
HandleBrowserConnection(ws, d) ==
  /\ ws = nsock + 1
  /\ ws <= MaxSock
  /\ LET fresh == connections[d] = NoConn
         conn == IF fresh
                 THEN [device |-> ws, browsers |-> nsets + 1,
                       metadata |-> NoMeta, frameCount |-> 0]
                 ELSE connections[d]
     IN /\ connections' = [connections EXCEPT ![d] = conn]
        /\ nsets' = IF fresh THEN nsets + 1 ELSE nsets
        /\ browserSets' = [browserSets EXCEPT ![conn.browsers] = @ \cup {ws}]
        /\ bset' = [bset EXCEPT ![ws] = conn.browsers]
        /\ inbox' = ReplayMetadata(ws, conn.metadata)
        /\ joinMeta' = [joinMeta EXCEPT ![ws] = conn.metadata]
  /\ joinFrames' = [joinFrames EXCEPT ![ws] = SumFrames(d, nsock)]
  /\ nsock' = ws
  /\ role' = [role EXCEPT ![ws] = "browser"]
  /\ sdev' = [sdev EXCEPT ![ws] = d]
  /\ readyState' = [readyState EXCEPT ![ws] = "OPEN"]
  /\ UNCHANGED <<evictTimers, now, emptiedAt, sent>>
  /\ UNCHANGED closeRuns
  /\ UNCHANGED pollVars
  /\ UNCHANGED broken
  /\ UNCHANGED protoVars
  /\ UNCHANGED cleanups
  /\ UNCHANGED <<scrcpyVars, created, lateVars>>
  /\ UNCHANGED pingTimer
  /\ UNCHANGED notRelay

(***************************************************************************)
(* handleDeviceMessage(deviceId, msg), from the 'message' handler of a     *)
(* device socket: the session is looked up by deviceId.                    *)
(***************************************************************************)
HandleDeviceMessage(d, msg) ==
  LET conn == connections[d] IN
    IF conn = NoConn
    THEN UNCHANGED <<connections, inbox>>
    ELSE IF msg.type = "metadata"
    THEN LET m == [width |-> msg.width, height |-> msg.height, fps |-> msg.fps] IN
           /\ connections' = [connections EXCEPT ![d].metadata = m]
           /\ inbox' = Broadcast(browserSets[conn.browsers], MetadataEnvelope(m))
    ELSE IF msg.type = "frame"
    THEN /\ connections' = [connections EXCEPT ![d].frameCount = @ + 1]
         /\ inbox' = Broadcast(browserSets[conn.browsers], msg)
    ELSE UNCHANGED <<connections, inbox>>

\* JSON.stringify(msg): the text of a message
Json(msg) == [json |-> TRUE, value |-> msg]

\* the JSON text `null`
Null == [null |-> TRUE]

\* texts that are not a handled message: not JSON at all, the JSON text
\* `null`, and a message whose type no case of the switch handles
BadTexts ==
  {[json |-> FALSE, value |-> Null], Json(Null), Json([type |-> "pong"])}

\* JSON.parse(data.toString()): the value, or a SyntaxError
JSONParse(raw) == [ok |-> raw.json, value |-> raw.value]

\* `msg.type` throws a TypeError when msg is null
TypeThrows(msg) == msg = Null

\* catch (error) { console.error(...) }
Rethrow == uncaught' = TRUE

CatchAndLog == UNCHANGED uncaught

\* the body of ws.on('message') of a device socket (lines 66-73)
OnDeviceMessage(d, raw) ==
  IF ~JSONParse(raw).ok \/ TypeThrows(JSONParse(raw).value)
  THEN /\ CatchAndLog
       /\ UNCHANGED <<connections, inbox>>
  ELSE /\ HandleDeviceMessage(d, JSONParse(raw).value)
       /\ UNCHANGED uncaught

\* what a producer that has sent `log` can send next
NextMessages(p, log) ==
  {MetadataMessage(MetaOf(p)), FrameMessage(p, Len(FramesIn(log)) + 1)}

RECURSIVE TotalSent(_)
TotalSent(k) == IF k = 0 THEN 0 ELSE TotalSent(k - 1) + Len(rawLog[k])

\* ws.on('message') of a device socket; a socket the service has closed can
\* still deliver messages that were in flight
DeviceMessage(p) ==
  /\ role[p] = "device"
  /\ readyState[p] \in {"OPEN", "CLOSING"}
  /\ TotalSent(nsock) < MaxSend
  /\ \E msg \in NextMessages(p, sent[p]) :
       /\ sent' = [sent EXCEPT ![p] = Append(@, msg)]
       /\ OnDeviceMessage(sdev[p], Json(msg))
  /\ rawLog' = [rawLog EXCEPT ![p] = Append(@, "ok")]
  /\ UNCHANGED <<nsock, role, sdev, readyState, browserSets, nsets, bset,
                 evictTimers, now, emptiedAt, joinMeta, joinFrames>>
  /\ UNCHANGED closeRuns
  /\ UNCHANGED pollVars
  /\ UNCHANGED broken
  /\ UNCHANGED cleanups
  /\ UNCHANGED <<scrcpyVars, created, lateVars>>
  /\ UNCHANGED pingTimer
  /\ UNCHANGED notRelay

\* a device socket delivers a text that is not a handled message
DeviceBadMessage(p) ==
  /\ role[p] = "device"
  /\ readyState[p] \in {"OPEN", "CLOSING"}
  /\ TotalSent(nsock) < MaxSend
  /\ \E raw \in BadTexts : OnDeviceMessage(sdev[p], raw)
  /\ rawLog' = [rawLog EXCEPT ![p] = Append(@, "bad")]
  /\ UNCHANGED <<nsock, role, sdev, readyState, browserSets, nsets, bset,
                 evictTimers, now, emptiedAt, closeRuns, broken, sent, joinMeta,
                 joinFrames>>
  /\ UNCHANGED pollVars
  /\ UNCHANGED cleanups
  /\ UNCHANGED <<scrcpyVars, created, lateVars>>
  /\ UNCHANGED pingTimer
  /\ UNCHANGED notRelay

(***************************************************************************)
(* handleBrowserMessage(deviceId, msg, ws): a command is forwarded to the  *)
(* session's open device socket, request_metadata is answered from the     *)
(* cache, any other type is ignored.                                       *)
(***************************************************************************)
HandleBrowserMessage(d, msg, ws) ==
  LET conn == connections[d] IN
    IF conn = NoConn
    THEN UNCHANGED inbox
    ELSE IF msg.type = "command"
    THEN inbox' = IF Delivers(conn.device)
                  THEN [inbox EXCEPT ![conn.device] = Append(@, msg)]
                  ELSE inbox
    ELSE IF msg.type = "request_metadata"
    THEN inbox' = IF conn.metadata # NoMeta /\ Delivers(ws)
                  THEN [inbox EXCEPT ![ws] = Append(@, MetadataEnvelope(conn.metadata))]
                  ELSE inbox
    ELSE UNCHANGED inbox

\* the body of ws.on('message') of a browser socket (lines 129-136)
OnBrowserMessage(d, raw, ws) ==
  IF ~JSONParse(raw).ok \/ TypeThrows(JSONParse(raw).value)
  THEN /\ CatchAndLog
       /\ UNCHANGED inbox
  ELSE /\ HandleBrowserMessage(d, JSONParse(raw).value, ws)
       /\ UNCHANGED uncaught

\* what a browser sends
BrowserMessages == {[type |-> "command", action |-> "tap"], [type |-> "request_metadata"]}

BrowserMessage(b) ==
  /\ role[b] = "browser"
  /\ readyState[b] \in {"OPEN", "CLOSING"}
  /\ TotalSent(nsock) < MaxSend
  /\ \E msg \in BrowserMessages : OnBrowserMessage(sdev[b], Json(msg), b)
  /\ rawLog' = [rawLog EXCEPT ![b] = Append(@, "ok")]
  /\ UNCHANGED <<nsock, role, sdev, readyState, connections, browserSets, nsets,
                 bset, evictTimers, now, emptiedAt, closeRuns, broken, sent,
                 joinMeta, joinFrames>>
  /\ UNCHANGED pollVars
  /\ UNCHANGED cleanups
  /\ UNCHANGED <<scrcpyVars, created, lateVars>>
  /\ UNCHANGED pingTimer
  /\ UNCHANGED notRelay

\* a browser socket delivers a text that is not a handled message
BrowserBadMessage(b) ==
  /\ role[b] = "browser"
  /\ readyState[b] \in {"OPEN", "CLOSING"}
  /\ TotalSent(nsock) < MaxSend
  /\ \E raw \in BadTexts : OnBrowserMessage(sdev[b], raw, b)
  /\ rawLog' = [rawLog EXCEPT ![b] = Append(@, "bad")]
  /\ UNCHANGED <<nsock, role, sdev, readyState, connections, browserSets, nsets,
                 bset, evictTimers, now, emptiedAt, closeRuns, broken, sent,
                 joinMeta, joinFrames>>
  /\ UNCHANGED pollVars
  /\ UNCHANGED cleanups
  /\ UNCHANGED <<scrcpyVars, created, lateVars>>
  /\ UNCHANGED pingTimer
  /\ UNCHANGED notRelay

(***************************************************************************)
(* ws.on('close') of a device socket: notify the browsers of whatever      *)
(* session the deviceId has now.                                           *)
(***************************************************************************)
DeviceSocketClosed(p) ==
  /\ role[p] = "device"
  /\ readyState[p] \in {"OPEN", "CLOSING"}
  /\ readyState' = [readyState EXCEPT ![p] = "CLOSED"]
  /\ LET conn == connections[sdev[p]] IN
       inbox' = IF conn = NoConn THEN inbox
                ELSE [s \in Sockets |->
                        IF s \in browserSets[conn.browsers] /\ Delivers(s)
                        THEN Append(inbox[s], DisconnectedEnvelope(sdev[p]))
                        ELSE inbox[s]]
  /\ UNCHANGED <<nsock, role, sdev, connections, browserSets, nsets, bset,
                 evictTimers, now, emptiedAt, sent, joinMeta, joinFrames>>
  /\ pingTimer' = [pingTimer EXCEPT ![p] = "cleared"]
  /\ UNCHANGED closeRuns
  /\ UNCHANGED pollVars
  /\ UNCHANGED broken
  /\ UNCHANGED protoVars
  /\ UNCHANGED cleanups
  /\ UNCHANGED <<scrcpyVars, created, lateVars>>
  /\ UNCHANGED notRelay

\* pings in a log
PingsIn(log) == SelectSeq(log, LAMBDA e : e.type = "ping")

(***************************************************************************)
(* The ping interval of socket ws fires: a ping is sent when the socket is *)
(* open, the interval is cleared otherwise.  No pong is awaited.           *)
(***************************************************************************)
PingTick(ws) ==
  /\ pingTimer[ws] = "active"
  /\ Len(PingsIn(inbox[ws])) < MaxTime
  /\ IF PingOpen(ws)
     THEN /\ inbox' = [inbox EXCEPT ![ws] = Append(@, [type |-> "ping", timestamp |-> now])]
          /\ UNCHANGED pingTimer
     ELSE /\ pingTimer' = [pingTimer EXCEPT ![ws] = "cleared"]
          /\ UNCHANGED inbox
  /\ UNCHANGED <<nsock, role, sdev, readyState, connections, browserSets, nsets,
                 bset, evictTimers, now, emptiedAt, closeRuns, broken, sent,
                 joinMeta, joinFrames>>
  /\ UNCHANGED pollVars
  /\ UNCHANGED protoVars
  /\ UNCHANGED cleanups
  /\ UNCHANGED <<scrcpyVars, created, lateVars>>
  /\ UNCHANGED notRelay

\* the body of the 'close' handler of browser socket b (lines 139-151)
DetachConsumer(b) ==
  /\ browserSets' = [browserSets EXCEPT ![bset[b]] = @ \ {b}]
  /\ evictTimers' = [evictTimers EXCEPT ![sdev[b]] =
                       IF browserSets'[bset[b]] = {}
                       THEN Append(@, now + GraceWindow) ELSE @]
  /\ emptiedAt' = [emptiedAt EXCEPT ![bset[b]] =
                     IF b \in browserSets[bset[b]] /\ browserSets'[bset[b]] = {}
                     THEN now ELSE @]
  /\ closeRuns' = [closeRuns EXCEPT ![b] = @ + 1]

(***************************************************************************)
(* ws.on('close') of a browser socket: remove it from the browsers Set of  *)
(* the conn the handler closed over; an empty Set arms a 30 s timer.       *)
(***************************************************************************)
BrowserSocketClosed(b) ==
  /\ role[b] = "browser"
  /\ readyState[b] \in {"OPEN", "CLOSING"}
  /\ readyState' = [readyState EXCEPT ![b] = "CLOSED"]
  /\ DetachConsumer(b)
  /\ PollingCloseListeners(b)
  /\ UNCHANGED <<nsock, role, sdev, inbox, connections, nsets, bset, now, sent,
                 joinMeta, joinFrames>>
  /\ UNCHANGED <<npoll, pollDev, pollWs, pollCount, pollBusy>>
  /\ UNCHANGED broken
  /\ UNCHANGED protoVars
  /\ UNCHANGED cleanups
  /\ UNCHANGED <<scrcpyVars, created, lateVars>>
  /\ UNCHANGED pingTimer
  /\ UNCHANGED notRelay

\* the 'close' handler of a browser socket runs once more, for a socket it
\* has already removed
DetachAgain(b) ==
  /\ role[b] = "browser"
  /\ readyState[b] = "CLOSED"
  /\ closeRuns[b] = 1
  /\ DetachConsumer(b)
  /\ UNCHANGED <<nsock, role, sdev, readyState, inbox, connections, nsets, bset,
                 now, sent, joinMeta, joinFrames>>
  /\ UNCHANGED pollVars
  /\ UNCHANGED broken
  /\ UNCHANGED protoVars
  /\ UNCHANGED cleanups
  /\ UNCHANGED <<scrcpyVars, created, lateVars>>
  /\ UNCHANGED pingTimer
  /\ UNCHANGED notRelay

\* the timer's callback, not before its deadline: delete the deviceId's
\* session if it has no browsers.  Timers of one delay expire in the order
\* they were set.
EvictionTimerFires(d) ==
  /\ evictTimers[d] # <<>>
  /\ Head(evictTimers[d]) <= now
  /\ evictTimers' = [evictTimers EXCEPT ![d] = Tail(@)]
  /\ connections' =
       IF connections[d] # NoConn /\ browserSets[connections[d].browsers] = {}
       THEN [connections EXCEPT ![d] = NoConn]
       ELSE connections
  /\ UNCHANGED <<nsock, role, sdev, readyState, inbox, browserSets, nsets, bset,
                 now, emptiedAt, sent, joinMeta, joinFrames>>
  /\ UNCHANGED closeRuns
  /\ UNCHANGED pollVars
  /\ UNCHANGED broken
  /\ UNCHANGED protoVars
  /\ UNCHANGED cleanups
  /\ UNCHANGED <<scrcpyVars, created, lateVars>>
  /\ UNCHANGED pingTimer
  /\ UNCHANGED notRelay

\* the metadata startPollingFallback announces (lines 304-311)
PollingMetadata ==
  [type |-> "metadata", codec |-> 1, codecName |-> "mjpeg",
   width |-> 1170, height |-> 2532, fps |-> TargetFps]

\* the frame the polling interval sends (lines 324-329)
PolledFrame(pts) ==
  [type |-> "frame", data |-> "screenshot", pts |-> pts, codec |-> "mjpeg"]

(***************************************************************************)
(* startPollingFallback(deviceId, ws), up to its first await: stop the     *)
(* polling in the map and start the initial screenshot.                    *)
(***************************************************************************)
StartPollingFallback(ws, d) ==
  /\ npoll < MaxPoll
  /\ role[ws] = "browser" /\ sdev[ws] = d /\ readyState[ws] = "OPEN"
  /\ npoll' = npoll + 1
  /\ pollDev' = [pollDev EXCEPT ![npoll + 1] = d]
  /\ pollWs' = [pollWs EXCEPT ![npoll + 1] = ws]
  /\ pollingIntervals' = [pollingIntervals EXCEPT ![d] = 0]
  /\ pollPhase' = [Cleared(d) EXCEPT ![npoll + 1] = "shot"]
  /\ UNCHANGED <<pollCount, pollBusy>>
  /\ UNCHANGED relayVars
  /\ UNCHANGED protoVars
  /\ UNCHANGED cleanups
  /\ UNCHANGED <<scrcpyVars, created, lateVars>>
  /\ UNCHANGED pingTimer
  /\ UNCHANGED notRelay

(***************************************************************************)
(* startPollingFallback after the await: metadata to ws if the screenshot  *)
(* succeeded, then setInterval, pollingIntervals.set and ws.on('close').   *)
(***************************************************************************)
InitialScreenshot(k, ok) ==
  /\ pollPhase[k] = "shot"
  /\ inbox' = IF ok /\ Delivers(pollWs[k])
              THEN [inbox EXCEPT ![pollWs[k]] = Append(@, PollingMetadata)]
              ELSE inbox
  /\ pollPhase' = [pollPhase EXCEPT ![k] = "running"]
  /\ pollingIntervals' = [pollingIntervals EXCEPT ![pollDev[k]] = k]
  /\ UNCHANGED <<npoll, pollDev, pollWs, pollCount, pollBusy>>
  /\ UNCHANGED <<nsock, role, sdev, readyState, connections, browserSets, nsets,
                 bset, evictTimers, now, emptiedAt, closeRuns, broken, sent,
                 joinMeta, joinFrames>>
  /\ UNCHANGED protoVars
  /\ UNCHANGED cleanups
  /\ UNCHANGED <<scrcpyVars, created, lateVars>>
  /\ UNCHANGED pingTimer
  /\ UNCHANGED notRelay

(***************************************************************************)
(* The interval callback of polling call k: a screenshot that succeeds is  *)
(* sent as a frame to the open browsers of the deviceId's session; one     *)
(* that fails is ignored.                                                  *)
(***************************************************************************)
(* The interval callback of polling call k starts: it awaits a screenshot. *)
(***************************************************************************)
PollTick(k) ==
  /\ pollPhase[k] = "running"
  /\ ~pollBusy[k]
  /\ pollCount[k] < MaxSend
  /\ pollBusy' = [pollBusy EXCEPT ![k] = TRUE]
  /\ UNCHANGED <<npoll, pollDev, pollWs, pollPhase, pollCount, pollingIntervals>>
  /\ UNCHANGED relayVars
  /\ UNCHANGED protoVars
  /\ UNCHANGED cleanups
  /\ UNCHANGED <<scrcpyVars, created, lateVars>>
  /\ UNCHANGED notRelay

(***************************************************************************)
(* The screenshot of an interval callback settles: one that succeeded is   *)
(* sent as a frame to the open browsers of the deviceId's session; one     *)
(* that failed is ignored.                                                 *)
(***************************************************************************)
PollShot(k, ok) ==
  /\ pollBusy[k]
  /\ pollBusy' = [pollBusy EXCEPT ![k] = FALSE]
  /\ IF ok
     THEN /\ pollCount' = [pollCount EXCEPT ![k] = @ + 1]
          /\ inbox' = IF connections[pollDev[k]] = NoConn THEN inbox
                      ELSE Broadcast(browserSets[connections[pollDev[k]].browsers],
                                     PolledFrame(pollCount[k] + 1))
     ELSE UNCHANGED <<pollCount, inbox>>
  /\ UNCHANGED <<npoll, pollDev, pollWs, pollPhase, pollingIntervals>>
  /\ UNCHANGED <<nsock, role, sdev, readyState, connections, browserSets, nsets,
                 bset, evictTimers, now, emptiedAt, closeRuns, broken, sent,
                 joinMeta, joinFrames>>
  /\ UNCHANGED protoVars
  /\ UNCHANGED cleanups
  /\ UNCHANGED <<scrcpyVars, created, lateVars>>
  /\ UNCHANGED pingTimer
  /\ UNCHANGED notRelay

\* the link of an open browser socket fails; the service has not noticed yet
ConsumerLinkFails(b) ==
  /\ role[b] = "browser"
  /\ readyState[b] = "OPEN"
  /\ ~broken[b]
  /\ broken' = [broken EXCEPT ![b] = TRUE]
  /\ UNCHANGED <<nsock, role, sdev, readyState, inbox, connections, browserSets,
                 nsets, bset, evictTimers, now, emptiedAt, closeRuns, sent,
                 joinMeta, joinFrames>>
  /\ UNCHANGED pollVars
  /\ UNCHANGED protoVars
  /\ UNCHANGED cleanups
  /\ UNCHANGED <<scrcpyVars, created, lateVars>>
  /\ UNCHANGED pingTimer
  /\ UNCHANGED notRelay

\* time passes
Tick ==
  /\ now < MaxTime * GraceWindow
  /\ now' = now + GraceWindow
  /\ UNCHANGED <<nsock, role, sdev, readyState, inbox, connections, browserSets,
                 nsets, bset, evictTimers, emptiedAt, sent, joinMeta, joinFrames>>
  /\ UNCHANGED closeRuns
  /\ UNCHANGED pollVars
  /\ UNCHANGED broken
  /\ UNCHANGED protoVars
  /\ UNCHANGED cleanups
  /\ UNCHANGED <<scrcpyVars, created, lateVars>>
  /\ UNCHANGED pingTimer
  /\ UNCHANGED notRelay

\* http.get requests made
MaxReq == 3

Requests == 1..MaxReq

\* res.statusCode
StatusCodes == {200, 404}

InitMjpeg ==
  /\ activeConnections = {}
  /\ nreq = 0
  /\ reqUdid = [r \in Requests |-> NoDev]
  /\ reqState = [r \in Requests |-> "none"]
  /\ emitted = <<>>

\* qvh processes spawned
MaxCap == 3

Captures == 1..MaxCap

InitQuickTime ==
  /\ activeProcesses = {}
  /\ activeWatchers = {}
  /\ ncap = 0
  /\ capUdid = [c \in Captures |-> NoDev]
  /\ capBy = [c \in Captures |-> "none"]
  /\ capProc = [c \in Captures |-> "none"]
  /\ capPhase = [c \in Captures |-> "none"]
  /\ watcher = [c \in Captures |-> "none"]
  /\ stoppedOnce = {}

\* largest maxRetries argument
MaxRetries == 3

\* the baseDelay arguments: the default and a shorter one
BaseDelays == {1000, 250}

InitRetry ==
  /\ rtPhase = "idle"
  /\ rtMax = 0
  /\ rtBase = 0
  /\ attempt = 0
  /\ rtOutcomes = <<>>
  /\ rtDelays = <<>>
  /\ lastError = "none"
  /\ rtResult = NoOutcome

vars == <<lockVars, iosVars, framerVars, relayVars, pollVars, protoVars, cleanups,
          scrcpyVars, created, lateVars>>

Init == InitLock /\ InitIOS /\ InitFramer /\ InitRelay /\ InitPolling /\ InitProto /\ cleanups = 0
  /\ InitScrcpy /\ created = <<>>
  /\ InitMjpeg
  /\ InitQuickTime
  /\ InitRetry
  /\ streamMode = [d \in Devices |-> "unset"]

\* clients of a DeviceMutexManager submitting opaque operations
NextLock ==
  \E t \in Tasks :
    \/ CallOp(t)
    \/ Start(t)
    \/ OpReturns(t)
    \/ OpThrows(t)
    \/ Finally(t)

SpecLock == Init /\ [][NextLock]_vars

\* the same clients with the scheduling of the event loop: a resolved
\* acquire() is resumed, and an operation that holds the lock terminates
\* and reaches the finally block of withLock
SpecLockLive ==
  /\ Init
  /\ [][NextLock]_vars
  /\ \A t \in Tasks :
       /\ WF_vars(Start(t))
       /\ WF_vars(OpReturns(t) \/ OpThrows(t))
       /\ WF_vars(Finally(t))

\* callers of IOSDeviceService.connect and IOSDeviceService.disconnect
NextIOS ==
  \E t \in Tasks :
    \/ CallConnect(t)
    \/ CallDisconnect(t)
    \/ Start(t)
    \/ ConnectGetDeviceInfo(t)
    \/ ConnectPairDevice(t)
    \/ ConnectCreateSession(t)
    \/ ConnectInstallWDA(t)
    \/ ConnectRetrySession(t)
    \/ DisconnectDeleteSession(t)
    \/ DisconnectCleanup(t)
    \/ Finally(t)

SpecIOS == Init /\ [][NextIOS]_vars

\* callers of connect, disconnect and the automation operations
NextAutomation ==
  \E t \in Tasks :
    \/ CallConnect(t)
    \/ CallDisconnect(t)
    \/ CallAutomation(t)
    \/ Start(t)
    \/ ConnectGetDeviceInfo(t)
    \/ ConnectPairDevice(t)
    \/ ConnectCreateSession(t)
    \/ ConnectInstallWDA(t)
    \/ ConnectRetrySession(t)
    \/ DisconnectDeleteSession(t)
    \/ DisconnectCleanup(t)
    \/ AutomationSettles(t)
    \/ Finally(t)

SpecAutomation == Init /\ [][NextAutomation]_vars

\* the MJPEG response stream delivering chunks
NextFramer == OnData

SpecFramer == Init /\ [][NextFramer]_vars

\* MirrorKit producers and browsers connecting, sending and closing
NextRelay ==
  \/ \E ws \in Sockets, d \in RelayDevices : HandleDeviceConnection(ws, d)
  \/ \E ws \in Sockets, d \in RelayDevices : HandleBrowserConnection(ws, d)
  \/ \E p \in Sockets : DeviceMessage(p)
  \/ \E p \in Sockets : DeviceSocketClosed(p)
  \/ \E b \in Sockets : BrowserSocketClosed(b)
  \/ \E d \in RelayDevices : EvictionTimerFires(d)
  \/ Tick

SpecRelay == Init /\ [][NextRelay]_vars

\* the sockets cleanup() calls close() on: the open device and the open
\* browsers of every session in the map
ClosedByCleanup ==
  {s \in Sockets : /\ readyState[s] = "OPEN"
                   /\ \E d \in RelayDevices :
                        /\ connections[d] # NoConn
                        /\ \/ connections[d].device = s
                           \/ s \in browserSets[connections[d].browsers]}

(***************************************************************************)
(* cleanup(): every polling interval is cleared and forgotten; of every    *)
(* session the open device socket and the open browser sockets are closed  *)
(* and the session is deleted.  Nothing is sent.                           *)
(***************************************************************************)
Cleanup ==
  /\ cleanups < MaxStop
  /\ cleanups' = cleanups + 1
  /\ pollingIntervals' = [d \in RelayDevices |-> 0]
  /\ pollPhase' = [k \in PollCalls |->
                     IF \E d \in RelayDevices : pollingIntervals[d] = k
                     THEN "cleared" ELSE pollPhase[k]]
  /\ readyState' = [s \in Sockets |->
                      IF s \in ClosedByCleanup THEN "CLOSING" ELSE readyState[s]]
  /\ connections' = [d \in RelayDevices |-> NoConn]
  /\ UNCHANGED <<nsock, role, sdev, browserSets, nsets, bset, evictTimers, now,
                 emptiedAt, closeRuns, broken, inbox, sent, joinMeta, joinFrames>>
  /\ UNCHANGED <<npoll, pollDev, pollWs, pollCount, pollBusy>>
  /\ UNCHANGED protoVars
  /\ UNCHANGED <<scrcpyVars, created, lateVars>>
  /\ UNCHANGED pingTimer
  /\ UNCHANGED notRelay

\* the relay and its shutdown
NextStop ==
  \/ \E ws \in Sockets, d \in RelayDevices : HandleDeviceConnection(ws, d)
  \/ \E ws \in Sockets, d \in RelayDevices : HandleBrowserConnection(ws, d)
  \/ \E p \in Sockets : DeviceMessage(p)
  \/ \E p \in Sockets : DeviceSocketClosed(p)
  \/ \E b \in Sockets : BrowserSocketClosed(b)
  \/ \E d \in RelayDevices : EvictionTimerFires(d)
  \/ Tick
  \/ Cleanup

SpecStop == Init /\ [][NextStop]_vars

(***************************************************************************)
(* A service that is shut down: its clients connect and ask for the        *)
(* polling fallback only before cleanup() is called; what was in flight    *)
(* then (an awaited screenshot, an eviction timer, a 'close' event) still  *)
(* runs afterwards.                                                        *)
(***************************************************************************)
DeviceConnectsEarly(ws, d) ==
  /\ cleanups = 0
  /\ HandleDeviceConnection(ws, d)

BrowserConnectsEarly(ws, d) ==
  /\ cleanups = 0
  /\ HandleBrowserConnection(ws, d)

PollingStartsEarly(ws, d) ==
  /\ cleanups = 0
  /\ StartPollingFallback(ws, d)

NextShutdown ==
  \/ \E ws \in Sockets, d \in RelayDevices : DeviceConnectsEarly(ws, d)
  \/ \E ws \in Sockets, d \in RelayDevices : BrowserConnectsEarly(ws, d)
  \/ \E ws \in Sockets, d \in RelayDevices : PollingStartsEarly(ws, d)
  \/ \E k \in PollCalls, ok \in BOOLEAN : InitialScreenshot(k, ok)
  \/ \E p \in Sockets : DeviceSocketClosed(p)
  \/ \E b \in Sockets : BrowserSocketClosed(b)
  \/ \E d \in RelayDevices : EvictionTimerFires(d)
  \/ Tick
  \/ Cleanup

SpecShutdown == Init /\ [][NextShutdown]_vars

(***************************************************************************)
(* ScrcpyService (Android): startStream stops the serial's session, sets   *)
(* up a scrcpy client, registers the session, sends the metadata and pipes *)
(* the video packets to the WebSocket; stopStream closes and forgets the   *)
(* session registered under the serial.                                    *)
(***************************************************************************)
\* JSON.stringify({ type: 'metadata', codec, width, height }): an undefined
\* codec is left out of the text
ScrcpyMetadata(codec, size) ==
  IF codec = NoCodec
  THEN [type |-> "metadata", width |-> size.width, height |-> size.height]
  ELSE [type |-> "metadata", codec |-> codec,
        width |-> size.width, height |-> size.height]

\* the packets a scrcpy video stream yields (sendFrameMeta: true); a bigint
\* pts is kept as its base-10000 limbs, least significant first: 7 and 2^63 - 1
SourcePackets ==
  {[type |-> "configuration", data |-> "sps"],
   [type |-> "data", data |-> "idr", keyframe |-> TRUE, pts |-> <<7>>],
   [type |-> "data", data |-> "nal", keyframe |-> FALSE,
    pts |-> <<5807, 5477, 368, 3372, 922>>]}

\* packets read so far by the pipes of calls 1..k
ScTotalRead(k) == IF k = 0 THEN 0 ELSE ScTotalRead(k - 1) + Len(scRead[k])

\* the decimal digits of pts, most significant limb first, each limb as four
\* digits
LimbDigits(pts) ==
  IF pts = <<>> THEN <<>>
  ELSE LET n == pts[Len(pts)] IN
         <<n \div 1000, (n \div 100) % 10, (n \div 10) % 10, n % 10>>
           \o LimbDigits(SubSeq(pts, 1, Len(pts) - 1))

NoLeadingZeros(ds) ==
  IF Len(ds) > 1 /\ ds[1] = 0 THEN NoLeadingZeros(Tail(ds)) ELSE ds

\* Number(pts).toString(): a double keeps 53 bits, an odd pts of 17 or more
\* digits loses its last bit
NumberToString(pts) ==
  NoLeadingZeros(LimbDigits(IF Len(pts) >= 5 THEN [pts EXCEPT ![1] = @ - (@ % 2)]
                            ELSE pts))

\* pts.toString() of a bigint: its decimal digits
BigIntToString(pts) == NoLeadingZeros(LimbDigits(pts))

\* { type: packet.type, data: Array.from(packet.data) }, and for a 'data'
\* packet keyframe and pts?.toString()
ScrcpyPacket(packet) ==
  IF packet.type = "data"
  THEN [type |-> packet.type, data |-> packet.data, keyframe |-> packet.keyframe,
        pts |-> BigIntToString(packet.pts)]
  ELSE [type |-> packet.type, data |-> packet.data]

\* ws.send(text): sent when the socket is open, dropped otherwise
ScSend(k, env) ==
  IF scWs[k] = "OPEN" THEN [scOut EXCEPT ![k] = Append(@, env)] ELSE scOut

\* startStream(adb, serial, ws) up to the first await: stopStream(serial)
\* has looked the serial's session up
StartStream(serial) ==
  /\ nscr < MaxScr
  /\ \E k \in {nscr + 1} :
       /\ nscr' = k
       /\ scSerial' = [scSerial EXCEPT ![k] = serial]
       /\ scWs' = [scWs EXCEPT ![k] = "OPEN"]
       /\ scHad' = [scHad EXCEPT ![k] = sessions[serial]]
       /\ scPhase' = [scPhase EXCEPT ![k] = "stopping"]
  /\ UNCHANGED <<scClient, scOut, scRead, sessions>>
  /\ UNCHANGED <<lockVars, iosVars, framerVars, relayVars, pollVars, protoVars,
                 cleanups, created, lateVars>>

\* the awaits of stopStream(serial) settle: the session it found has its
\* reader cancelled and its client closed, and the serial is forgotten
StopStreamSettles(k) ==
  /\ scPhase[k] \in {"stopping", "draining"}
  /\ scPhase' = [scPhase EXCEPT ![k] = IF @ = "stopping" THEN "setup" ELSE "stopped"]
  /\ IF scHad[k] # 0
     THEN /\ scClient' = [scClient EXCEPT ![scHad[k]] = "closed"]
          /\ sessions' = [sessions EXCEPT ![scSerial[k]] = 0]
     ELSE UNCHANGED <<scClient, sessions>>
  /\ scHad' = [scHad EXCEPT ![k] = 0]
  /\ UNCHANGED <<nscr, scSerial, scWs, scOut, scRead>>
  /\ UNCHANGED <<lockVars, iosVars, framerVars, relayVars, pollVars, protoVars,
                 cleanups, created, lateVars>>

\* how the setup of startStream ends: the server deployment or the client
\* start throws, the client has no video stream, or all succeed
SetupOutcomes == {"nostart", "novideo", "ok"}

\* ensureServerReady, AdbScrcpyClient.start and client.videoStream settle;
\* on success the session is registered and the metadata sent
SetupSettles(k, ending) ==
  /\ scPhase[k] = "setup"
  /\ scClient' = [scClient EXCEPT ![k] = IF ending = "nostart" THEN @ ELSE "running"]
  /\ IF ending = "ok"
     THEN /\ sessions' = [sessions EXCEPT ![scSerial[k]] = k]
          /\ \E codec \in ScrcpyCodecs, size \in ScrcpySizes :
               scOut' = ScSend(k, ScrcpyMetadata(codec, size))
          /\ scPhase' = [scPhase EXCEPT ![k] = "piping"]
     ELSE /\ scPhase' = [scPhase EXCEPT ![k] = "failed"]
          /\ UNCHANGED <<sessions, scOut>>
  /\ UNCHANGED <<nscr, scSerial, scWs, scRead, scHad>>
  /\ UNCHANGED <<lockVars, iosVars, framerVars, relayVars, pollVars, protoVars,
                 cleanups, created, lateVars>>

\* pipeVideoStream: a packet is read while the socket is open
PipePacket(k, packet) ==
  /\ scPhase[k] = "piping"
  /\ scWs[k] = "OPEN"
  /\ ScTotalRead(nscr) < MaxSend
  /\ scRead' = [scRead EXCEPT ![k] = Append(@, packet)]
  /\ scOut' = ScSend(k, ScrcpyPacket(packet))
  /\ UNCHANGED <<nscr, scSerial, scPhase, scClient, scWs, scHad, sessions>>
  /\ UNCHANGED <<lockVars, iosVars, framerVars, relayVars, pollVars, protoVars,
                 cleanups, created, lateVars>>

\* the videoStream.sizeChanged listener: the device was rotated
SizeChanged(k) ==
  /\ scPhase[k] = "piping"
  /\ scWs[k] = "OPEN"
  /\ Len(scOut[k]) < MaxSend
  /\ \E size \in ScrcpySizes :
       scOut' = ScSend(k, [type |-> "sizeChanged", width |-> size.height,
                           height |-> size.width])
  /\ UNCHANGED <<nscr, scSerial, scPhase, scClient, scWs, scRead, scHad, sessions>>
  /\ UNCHANGED <<lockVars, iosVars, framerVars, relayVars, pollVars, protoVars,
                 cleanups, created, lateVars>>

\* pipeVideoStream leaves its loop (stream done, read error, or socket found
\* not open) and its finally block calls stopStream(serial)
PipeEnds(k) ==
  /\ scPhase[k] = "piping"
  /\ scPhase' = [scPhase EXCEPT ![k] = "draining"]
  /\ scHad' = [scHad EXCEPT ![k] = sessions[scSerial[k]]]
  /\ UNCHANGED <<nscr, scSerial, scClient, scWs, scOut, scRead, sessions>>
  /\ UNCHANGED <<lockVars, iosVars, framerVars, relayVars, pollVars, protoVars,
                 cleanups, created, lateVars>>

\* the client of a stream goes away
ScSocketCloses(k) ==
  /\ scWs[k] = "OPEN"
  /\ scWs' = [scWs EXCEPT ![k] = "CLOSED"]
  /\ UNCHANGED <<nscr, scSerial, scPhase, scClient, scOut, scRead, scHad, sessions>>
  /\ UNCHANGED <<lockVars, iosVars, framerVars, relayVars, pollVars, protoVars,
                 cleanups, created, lateVars>>

(***************************************************************************)
(* protocol.ts                                                             *)
(***************************************************************************)
CODEC == [H264 |-> 0, MJPEG |-> 1, H265 |-> 2]

CODEC_NAME == [n \in 0..2 |-> CASE n = 0 -> "h264" [] n = 1 -> "mjpeg" [] n = 2 -> "h265"]

CodecNames == {"h264", "mjpeg", "h265"}

\* fps?: number, left out
NoFps == 0

\* a map that numbers the codec names in alphabetical order
codecMapAlphabetical ==
  [c \in CodecNames |-> CASE c = "h264" -> 0 [] c = "h265" -> 1 [] c = "mjpeg" -> 2]

\* const codecMap = { h264: 0, mjpeg: 1, h265: 2 }
codecMap == [c \in CodecNames |-> CASE c = "h264" -> 0 [] c = "mjpeg" -> 1 [] c = "h265" -> 2]

\* the codec arguments callers pass: the enumeration, and a string outside it
\* (the parameter type is erased at run time)
CodecArgs == CodecNames \cup {"vp9"}

\* createMetadataMessage(codec, width, height, fps?) as its JSON text shows
\* it: codecMap[codec] is undefined for a codec outside the map, and an
\* undefined codec or fps is left out of the text
createMetadataMessage(codec, width, height, fps) ==
  LET base == [type |-> "metadata", codecName |-> codec,
               width |-> width, height |-> height]
      withCodec == IF codec \in DOMAIN codecMap
                   THEN [f \in DOMAIN base \cup {"codec"} |->
                           IF f = "codec" THEN codecMap[codec] ELSE base[f]]
                   ELSE base
  IN IF fps = NoFps THEN withCodec
     ELSE [f \in DOMAIN withCodec \cup {"fps"} |->
             IF f = "fps" THEN fps ELSE withCodec[f]]

\* a relay builds a metadata message
CallCreateMetadataMessage ==
  /\ \E codec \in CodecArgs, size \in ScrcpySizes, fps \in {NoFps, 30} :
       created' = <<createMetadataMessage(codec, size.width, size.height, fps)>>
  /\ UNCHANGED <<lockVars, iosVars, framerVars, relayVars, pollVars, protoVars,
                 cleanups, scrcpyVars, lateVars>>

(***************************************************************************)
(* MjpegStreamClient: connect, disconnect and the handlers connect puts on *)
(* the request and on its response.                                        *)
(***************************************************************************)
\* this.emit(type, { udid })
Emitted(type, udid) == Append(emitted, [type |-> type, udid |-> udid])

\* isConnected(udid)
IsConnected(udid) == udid \in activeConnections

\* connect(udid): returns when the udid is mapped; otherwise makes the
\* request, maps the udid to it and emits 'connected'
Connect(udid) ==
  IF IsConnected(udid)
  THEN UNCHANGED mjpegVars
  ELSE /\ nreq' = nreq + 1
       /\ reqUdid' = [reqUdid EXCEPT ![nreq + 1] = udid]
       /\ reqState' = [reqState EXCEPT ![nreq + 1] = "pending"]
       /\ activeConnections' = activeConnections \cup {udid}
       /\ emitted' = Emitted("connected", udid)

\* connect(udid) called on the exported instance
MjpegConnect(udid) ==
  /\ nreq < MaxReq
  /\ Connect(udid)
  /\ UNCHANGED notMjpeg

\* the response callback: a status other than 200 emits 'error' and returns;
\* with 200 the 'data', 'end' and 'error' handlers are put on the response
MjpegResponse(r, statusCode) ==
  /\ reqState[r] = "pending"
  /\ IF statusCode # 200
     THEN /\ emitted' = Emitted("error", reqUdid[r])
          /\ reqState' = [reqState EXCEPT ![r] = "rejected"]
     ELSE /\ reqState' = [reqState EXCEPT ![r] = "streaming"]
          /\ UNCHANGED emitted
  /\ UNCHANGED <<activeConnections, nreq, reqUdid>>
  /\ UNCHANGED notMjpeg

\* res.on('end')
MjpegResEnd(r) ==
  /\ reqState[r] = "streaming"
  /\ activeConnections' = activeConnections \ {reqUdid[r]}
  /\ emitted' = Emitted("disconnected", reqUdid[r])
  /\ reqState' = [reqState EXCEPT ![r] = "ended"]
  /\ UNCHANGED <<nreq, reqUdid>>
  /\ UNCHANGED notMjpeg

\* res.on('error')
MjpegResError(r) ==
  /\ reqState[r] = "streaming"
  /\ activeConnections' = activeConnections \ {reqUdid[r]}
  /\ emitted' = Emitted("error", reqUdid[r])
  /\ reqState' = [reqState EXCEPT ![r] = "failed"]
  /\ UNCHANGED <<nreq, reqUdid>>
  /\ UNCHANGED notMjpeg

\* req.on('error'): the connection fails before a response arrives
MjpegReqError(r) ==
  /\ reqState[r] = "pending"
  /\ activeConnections' = activeConnections \ {reqUdid[r]}
  /\ emitted' = Emitted("error", reqUdid[r])
  /\ reqState' = [reqState EXCEPT ![r] = "refused"]
  /\ UNCHANGED <<nreq, reqUdid>>
  /\ UNCHANGED notMjpeg

\* req.on('timeout'): req.destroy(), then as on an error
MjpegReqTimeout(r) ==
  /\ reqState[r] = "pending"
  /\ activeConnections' = activeConnections \ {reqUdid[r]}
  /\ emitted' = Emitted("error", reqUdid[r])
  /\ reqState' = [reqState EXCEPT ![r] = "destroyed"]
  /\ UNCHANGED <<nreq, reqUdid>>
  /\ UNCHANGED notMjpeg

\* disconnect(udid): the mapped request is destroyed and the udid forgotten;
\* nothing is done for a udid that is not mapped
Disconnect(udid) ==
  IF IsConnected(udid)
  THEN /\ \E r \in Requests :
            /\ reqUdid[r] = udid
            /\ \A q \in Requests : reqUdid[q] = udid => q <= r
            /\ reqState' = [reqState EXCEPT ![r] = "destroyed"]
       /\ activeConnections' = activeConnections \ {udid}
       /\ emitted' = Emitted("disconnected", udid)
       /\ UNCHANGED <<nreq, reqUdid>>
  ELSE UNCHANGED mjpegVars

\* disconnect(udid) called on the exported instance
MjpegDisconnect(udid) ==
  /\ IsConnected(udid)
  /\ Disconnect(udid)
  /\ UNCHANGED notMjpeg

\* the callers of MjpegStreamClient and the events of its requests
NextMjpeg ==
  \/ \E udid \in Devices : MjpegConnect(udid)
  \/ \E r \in Requests, statusCode \in StatusCodes : MjpegResponse(r, statusCode)
  \/ \E r \in Requests : MjpegResEnd(r)
  \/ \E r \in Requests : MjpegResError(r)
  \/ \E r \in Requests : MjpegReqError(r)
  \/ \E r \in Requests : MjpegReqTimeout(r)
  \/ \E udid \in Devices : MjpegDisconnect(udid)

SpecMjpeg == Init /\ [][NextMjpeg]_vars

(***************************************************************************)
(* QuickTimeCapture: the qvh process of a device and the watcher on the    *)
(* video file it writes.                                                   *)
(***************************************************************************)
\* isCapturing(udid)
IsCapturing(udid) == udid \in activeProcesses

\* startCapture(udid) up to its await: the process is spawned and mapped
SpawnQvh(udid, by) ==
  /\ ncap' = ncap + 1
  /\ capUdid' = [capUdid EXCEPT ![ncap + 1] = udid]
  /\ capBy' = [capBy EXCEPT ![ncap + 1] = by]
  /\ capProc' = [capProc EXCEPT ![ncap + 1] = "running"]
  /\ capPhase' = [capPhase EXCEPT ![ncap + 1] = "delay"]
  /\ activeProcesses' = activeProcesses \cup {udid}
  /\ UNCHANGED <<activeWatchers, watcher, stoppedOnce>>

\* startCapture(udid) called on the exported instance; it throws when the
\* udid is mapped already
StartCapture(udid) ==
  /\ ncap < MaxCap
  /\ ~IsCapturing(udid)
  /\ SpawnQvh(udid, "direct")
  /\ UNCHANGED streamMode
  /\ UNCHANGED notQt

\* startWatching(): fs.watch, activeWatchers.set, and the once('stopped')
\* listener that closes the watcher and deletes the udid
StartWatching(c) ==
  /\ watcher' = [watcher EXCEPT ![c] = "open"]
  /\ activeWatchers' = activeWatchers \cup {capUdid[c]}
  /\ stoppedOnce' = stoppedOnce \cup {c}
  /\ capPhase' = [capPhase EXCEPT ![c] = "watching"]

\* waitForFile(): with the file there it starts watching, otherwise it sets
\* the 100 ms timer; qvh's file is there only while its process lives
WaitForFile(c, exists) ==
  IF exists
  THEN StartWatching(c)
  ELSE /\ capPhase' = [capPhase EXCEPT ![c] = "waiting"]
       /\ UNCHANGED <<watcher, activeWatchers, stoppedOnce>>

\* the 2000 ms delay of startCapture is over: startFileStream runs and
\* startCapture resolves; a startMirroring that awaits it sets the mode
DelayEnds(c, exists) ==
  /\ capPhase[c] = "delay"
  /\ exists => capProc[c] # "exited"
  /\ WaitForFile(c, exists)
  /\ streamMode' = IF capBy[c] = "mirror"
                   THEN [streamMode EXCEPT ![capUdid[c]] = "quicktime"]
                   ELSE streamMode
  /\ UNCHANGED <<activeProcesses, ncap, capUdid, capBy, capProc>>
  /\ UNCHANGED notQt

\* the 100 ms timer of waitForFile fires: it goes on only while the udid is
\* mapped
WaitTimerFires(c, exists) ==
  /\ capPhase[c] = "waiting"
  /\ exists => capProc[c] # "exited"
  /\ IF IsCapturing(capUdid[c])
     THEN /\ exists
          /\ StartWatching(c)
     ELSE /\ capPhase' = [capPhase EXCEPT ![c] = "abandoned"]
          /\ UNCHANGED <<watcher, activeWatchers, stoppedOnce>>
  /\ UNCHANGED <<activeProcesses, ncap, capUdid, capBy, capProc, streamMode>>
  /\ UNCHANGED notQt

\* a once('stopped') listener of startWatching runs for an event of udid:
\* only the listener of that udid closes its watcher
ClosedByStopped(udid) == {l \in stoppedOnce : capUdid[l] = udid}

\* qvh.on('close'): the udid is unmapped and 'stopped' is emitted; every
\* once listener runs and is removed, whatever the udid of the event
ProcessExits(c) ==
  /\ capProc[c] \in {"running", "killed"}
  /\ capProc' = [capProc EXCEPT ![c] = "exited"]
  /\ activeProcesses' = activeProcesses \ {capUdid[c]}
  /\ watcher' = [l \in Captures |->
                   IF l \in ClosedByStopped(capUdid[c]) THEN "closed" ELSE watcher[l]]
  /\ activeWatchers' = IF ClosedByStopped(capUdid[c]) # {}
                       THEN activeWatchers \ {capUdid[c]} ELSE activeWatchers
  /\ stoppedOnce' = {}
  /\ UNCHANGED <<ncap, capUdid, capBy, capPhase, streamMode>>
  /\ UNCHANGED notQt

\* process.kill('SIGTERM'), and 'SIGKILL' 500 ms later, on the mapped process
KillQvh(udid) ==
  [c \in Captures |->
     IF capUdid[c] = udid /\ capProc[c] = "running" THEN "killed" ELSE capProc[c]]

\* stopCapture(udid) called on the exported instance
StopCapture(udid) ==
  /\ IsCapturing(udid)
  /\ capProc' = KillQvh(udid)
  /\ capProc' # capProc
  /\ UNCHANGED <<activeProcesses, activeWatchers, ncap, capUdid, capBy, capPhase,
                 watcher, stoppedOnce, streamMode>>
  /\ UNCHANGED notQt

\* the callers of QuickTimeCapture, its timers and its processes
NextQuickTime ==
  \/ \E udid \in Devices : StartCapture(udid)
  \/ \E c \in Captures, exists \in BOOLEAN : DelayEnds(c, exists)
  \/ \E c \in Captures, exists \in BOOLEAN : WaitTimerFires(c, exists)
  \/ \E c \in Captures : ProcessExits(c)
  \/ \E udid \in Devices : StopCapture(udid)

SpecQuickTime == Init /\ [][NextQuickTime]_vars

(***************************************************************************)
(* IOSDeviceService.startMirroring / stopMirroring / getStreamMode         *)
(***************************************************************************)
\* what the mirroring calls leave alone
notMirror == <<lockVars, iosVars, framerVars, relayVars, pollVars, protoVars, cleanups,
               scrcpyVars, created, retryVars>>

\* getStreamMode(serial)
GetStreamMode(serial) == streamMode[serial]

\* startMirroring(serial) of a connected device that listDevices finds, from
\* the moment isAvailable() has resolved: with MJPEG available it connects
\* the stream and sets the mode; otherwise it starts the QuickTime capture
\* and awaits it, and a capture that is running already makes it throw
StartMirroring(serial, mjpegAvailable) ==
  /\ connected[serial]
  /\ IF mjpegAvailable
     THEN /\ nreq < MaxReq
          /\ Connect(serial)
          /\ streamMode' = [streamMode EXCEPT ![serial] = "mjpeg"]
          /\ UNCHANGED qtVars
     ELSE /\ ncap < MaxCap
          /\ ~IsCapturing(serial)
          /\ SpawnQvh(serial, "mirror")
          /\ UNCHANGED <<mjpegVars, streamMode>>
  /\ UNCHANGED notMirror

\* stopMirroring(serial): the path the mode names is stopped, with no mode
\* the QuickTime capture; then the mode is deleted
StopMirroring(serial) ==
  /\ IF GetStreamMode(serial) = "mjpeg"
     THEN /\ Disconnect(serial)
          /\ UNCHANGED capProc
     ELSE /\ capProc' = KillQvh(serial)
          /\ UNCHANGED mjpegVars
  /\ streamMode' = [streamMode EXCEPT ![serial] = "unset"]
  /\ <<mjpegVars, capProc, streamMode>>' # <<mjpegVars, capProc, streamMode>>
  /\ UNCHANGED <<activeProcesses, activeWatchers, ncap, capUdid, capBy, capPhase,
                 watcher, stoppedOnce>>
  /\ UNCHANGED notMirror

\* one IOSDeviceService.connect call, the mirroring calls and the capture
NextMirror ==
  \/ \E t \in {1} : CallConnect(t)
  \/ \E t \in {1} : Start(t)
  \/ \E t \in {1} : ConnectGetDeviceInfo(t)
  \/ \E t \in {1} : ConnectPairDevice(t)
  \/ \E t \in {1} : ConnectCreateSession(t)
  \/ \E t \in {1} : ConnectInstallWDA(t)
  \/ \E t \in {1} : ConnectRetrySession(t)
  \/ \E t \in {1} : Finally(t)
  \/ \E serial \in Devices, mjpegAvailable \in BOOLEAN : StartMirroring(serial, mjpegAvailable)
  \/ \E serial \in Devices : StopMirroring(serial)
  \/ \E c \in Captures, exists \in BOOLEAN : DelayEnds(c, exists)
  \/ \E c \in Captures : ProcessExits(c)

SpecMirror == Init /\ [][NextMirror]_vars

(***************************************************************************)
(* retryWithBackoff(fn, maxRetries, baseDelay) of wda-client.ts            *)
(***************************************************************************)
\* what retryWithBackoff leaves alone
notRetry == <<early, mjpegVars, qtVars, streamMode>>

\* a delay that grows by baseDelay with every attempt
LinearBackoff(base, n) == base * (n + 1)

\* const delay = baseDelay * Math.pow(2, attempt)
Backoff(base, n) == base * 2^n

\* retryWithBackoff is called: lastError = null, attempt = 0 passes the loop
\* test and fn is called
RetryWithBackoff(maxRetries, baseDelay) ==
  /\ rtPhase = "idle"
  /\ rtMax' = maxRetries
  /\ rtBase' = baseDelay
  /\ attempt' = 0
  /\ lastError' = "none"
  /\ rtPhase' = "calling"
  /\ UNCHANGED <<rtOutcomes, rtDelays, rtResult>>
  /\ UNCHANGED notRetry

\* `return await fn()`: fn resolved
FnReturns ==
  /\ rtPhase = "calling"
  /\ rtOutcomes' = Append(rtOutcomes, Ok)
  /\ rtResult' = Ok
  /\ rtPhase' = "returned"
  /\ UNCHANGED <<rtMax, rtBase, attempt, rtDelays, lastError>>
  /\ UNCHANGED notRetry

\* the catch block: fn rejected with error e; before the last attempt the
\* delay is started, after it the loop ends and lastError is thrown
FnThrows(e) ==
  /\ rtPhase = "calling"
  /\ rtOutcomes' = Append(rtOutcomes, [kind |-> "err", val |-> e])
  /\ lastError' = e
  /\ IF attempt < rtMax
     THEN /\ rtDelays' = Append(rtDelays, Backoff(rtBase, attempt))
          /\ rtPhase' = "sleeping"
          /\ UNCHANGED <<attempt, rtResult>>
     ELSE /\ attempt' = attempt + 1
          /\ rtResult' = [kind |-> "err", val |-> e]
          /\ rtPhase' = "thrown"
          /\ UNCHANGED rtDelays
  /\ UNCHANGED <<rtMax, rtBase>>
  /\ UNCHANGED notRetry

\* the delay's timer fires: attempt++, the loop test passes, fn is called
DelayOver ==
  /\ rtPhase = "sleeping"
  /\ attempt' = attempt + 1
  /\ rtPhase' = "calling"
  /\ UNCHANGED <<rtMax, rtBase, rtOutcomes, rtDelays, lastError, rtResult>>
  /\ UNCHANGED notRetry

\* a caller of retryWithBackoff, its fn and its timer
NextRetry ==
  \/ \E maxRetries \in 0..MaxRetries, baseDelay \in BaseDelays :
       RetryWithBackoff(maxRetries, baseDelay)
  \/ FnReturns
  \/ \E e \in ErrVals : FnThrows(e)
  \/ DelayOver

\* fn terminates and the timer of a delay fires
SpecRetry ==
  /\ Init
  /\ [][NextRetry]_vars
  /\ WF_vars(FnReturns \/ \E e \in ErrVals : FnThrows(e))
  /\ WF_vars(DelayOver)

\* ScrcpyService and the clients of its streams
NextScrcpy ==
  \/ \E sr \in Serials : StartStream(sr)
  \/ \E k \in ScrCalls : StopStreamSettles(k)
  \/ \E k \in ScrCalls, ending \in SetupOutcomes : SetupSettles(k, ending)
  \/ \E k \in ScrCalls, packet \in SourcePackets : PipePacket(k, packet)
  \/ \E k \in ScrCalls : SizeChanged(k)
  \/ \E k \in ScrCalls : PipeEnds(k)
  \/ \E k \in ScrCalls : ScSocketCloses(k)

SpecScrcpy == Init /\ [][NextScrcpy]_vars

\* the calls of ScrcpyService and how their streams end; every stopStream
\* whose awaits are pending settles (reader.cancel() and client.close() do)
NextScrcpyEnd ==
  \/ \E sr \in Serials : StartStream(sr)
  \/ \E k \in ScrCalls : StopStreamSettles(k)
  \/ \E k \in ScrCalls, ending \in SetupOutcomes : SetupSettles(k, ending)
  \/ \E k \in ScrCalls : PipeEnds(k)
  \/ \E k \in ScrCalls : ScSocketCloses(k)

SpecScrcpyEnd ==
  /\ Init
  /\ [][NextScrcpyEnd]_vars
  /\ \A k \in ScrCalls : WF_vars(StopStreamSettles(k))

\* the simulator relay, the scrcpy relay and createMetadataMessage
NextMetadata ==
  \/ \E ws \in Sockets, d \in RelayDevices : HandleDeviceConnection(ws, d)
  \/ \E ws \in Sockets, d \in RelayDevices : HandleBrowserConnection(ws, d)
  \/ \E p \in Sockets : DeviceMessage(p)
  \/ \E sr \in Serials : StartStream(sr)
  \/ \E k \in ScrCalls : StopStreamSettles(k)
  \/ \E k \in ScrCalls, ending \in SetupOutcomes : SetupSettles(k, ending)
  \/ CallCreateMetadataMessage

SpecMetadata == Init /\ [][NextMetadata]_vars

\* isDeviceConnected(deviceId)
IsDeviceConnected(d) ==
  IF connections[d] = NoConn THEN FALSE
  ELSE readyState[connections[d].device] = "OPEN"

\* getConnectedDevices()
GetConnectedDevices ==
  {d \in RelayDevices : connections[d] # NoConn
                        /\ readyState[connections[d].device] = "OPEN"}

\* the relay with its keep-alive pings
NextPing ==
  \/ \E ws \in Sockets, d \in RelayDevices : HandleDeviceConnection(ws, d)
  \/ \E ws \in Sockets, d \in RelayDevices : HandleBrowserConnection(ws, d)
  \/ \E p \in Sockets : DeviceMessage(p)
  \/ \E p \in Sockets : DeviceSocketClosed(p)
  \/ \E b \in Sockets : BrowserSocketClosed(b)
  \/ \E d \in RelayDevices : EvictionTimerFires(d)
  \/ Tick
  \/ \E ws \in Sockets : PingTick(ws)

SpecPing == Init /\ [][NextPing]_vars

\* the relay with peers that also send texts it does not handle
NextProtocol ==
  \/ \E ws \in Sockets, d \in RelayDevices : HandleDeviceConnection(ws, d)
  \/ \E ws \in Sockets, d \in RelayDevices : HandleBrowserConnection(ws, d)
  \/ \E p \in Sockets : DeviceMessage(p)
  \/ \E p \in Sockets : DeviceBadMessage(p)
  \/ \E b \in Sockets : BrowserMessage(b)
  \/ \E b \in Sockets : BrowserBadMessage(b)
  \/ \E p \in Sockets : DeviceSocketClosed(p)
  \/ \E b \in Sockets : BrowserSocketClosed(b)
  \/ \E d \in RelayDevices : EvictionTimerFires(d)
  \/ Tick

SpecProtocol == Init /\ [][NextProtocol]_vars

\* the relay with consumers whose links fail
NextSendFailure ==
  \/ \E ws \in Sockets, d \in RelayDevices : HandleDeviceConnection(ws, d)
  \/ \E ws \in Sockets, d \in RelayDevices : HandleBrowserConnection(ws, d)
  \/ \E p \in Sockets : DeviceMessage(p)
  \/ \E p \in Sockets : DeviceSocketClosed(p)
  \/ \E b \in Sockets : BrowserSocketClosed(b)
  \/ \E b \in Sockets : ConsumerLinkFails(b)
  \/ \E d \in RelayDevices : EvictionTimerFires(d)
  \/ Tick

SpecSendFailure == Init /\ [][NextSendFailure]_vars

\* the relay with 'close' handlers that can run a second time
NextDetach ==
  \/ \E ws \in Sockets, d \in RelayDevices : HandleBrowserConnection(ws, d)
  \/ \E ws \in Sockets, d \in RelayDevices : HandleDeviceConnection(ws, d)
  \/ \E b \in Sockets : BrowserSocketClosed(b)
  \/ \E b \in Sockets : DetachAgain(b)
  \/ \E d \in RelayDevices : EvictionTimerFires(d)
  \/ Tick

SpecDetach == Init /\ [][NextDetach]_vars

\* the relay fed by the polling fallback
NextPolling ==
  \/ \E ws \in Sockets, d \in RelayDevices : HandleBrowserConnection(ws, d)
  \/ \E ws \in Sockets, d \in RelayDevices : HandleDeviceConnection(ws, d)
  \/ \E b \in Sockets : BrowserSocketClosed(b)
  \/ \E ws \in Sockets, d \in RelayDevices : StartPollingFallback(ws, d)
  \/ \E k \in PollCalls, ok \in BOOLEAN : InitialScreenshot(k, ok)
  \/ \E k \in PollCalls : PollTick(k)
  \/ \E k \in PollCalls, ok \in BOOLEAN : PollShot(k, ok)

SpecPolling == Init /\ [][NextPolling]_vars

(***************************************************************************)
(* Derived notions used by the properties.                                 *)
(***************************************************************************)
\* the call's operation has been invoked and has not settled yet
Executing(t) == pc[t] = "running"

\* the call owns the lock: from the grant to the release in `finally`
HoldsLock(t) == pc[t] \in {"granted", "running", "settled"}

\* the call's operation has been invoked (now or earlier)
Started(t) == pc[t] \in {"running", "settled", "done"}

(***************************************************************************)
(* C1: two operations submitted with the same device id never execute at   *)
(* the same time: while one is between its start and its settlement, no    *)
(* other operation for that id has been started and not yet finished.      *)
(***************************************************************************)
C1_SameDeviceNeverOverlap ==
  \A t, u \in Tasks :
    (t # u /\ tdev[t] = tdev[u] /\ tdev[t] # NoDev)
      => ~(Executing(t) /\ Executing(u))

\* a call that queued behind a holder of its device has started, and a third
\* call of that device is still waiting
C1_Witness ==
  \E t, u \in Tasks :
    /\ t # u /\ tdev[t] = tdev[u]
    /\ Executing(t) /\ qpos[t] > 0
    /\ pc[u] = "waiting"

(***************************************************************************)
(* C2: the bodies of IOSDeviceService.connect and disconnect for one       *)
(* serial never execute concurrently.                                      *)
(***************************************************************************)
C2_ConnectDisconnectNeverOverlap ==
  \A t, u \in Tasks :
    (tdev[t] = tdev[u] /\ tkind[t] = "connect" /\ tkind[u] = "disconnect")
      => ~(Executing(t) /\ Executing(u))

(***************************************************************************)
(* C3: a call for device X is never delayed by another device's lock: a    *)
(* call waits only while another call for the same device id holds that    *)
(* device's lock, so with no call for X running or waiting the call for X  *)
(* is granted at once.                                                     *)
(***************************************************************************)
C3_WaitsOnlyBehindSameDevice ==
  \A t \in Tasks :
    pc[t] = "waiting"
      => \E u \in Tasks : u # t /\ tdev[u] = tdev[t] /\ HoldsLock(u)

\* operations for two different devices execute at the same time
C3_Witness ==
  \E t, u \in Tasks :
    /\ tdev[t] # NoDev /\ tdev[u] # NoDev /\ tdev[t] # tdev[u]
    /\ Executing(t) /\ Executing(u)

(***************************************************************************)
(* C4: the lock is released on every exit path and the failure reaches the *)
(* caller unchanged: a mutex is locked exactly while some call owns it     *)
(* (so a call that threw no longer holds it), waiters exist only on a      *)
(* locked mutex, and a finished call's result is what its operation        *)
(* returned or threw.                                                      *)
(***************************************************************************)
C4_ReleasedOnEveryExit ==
  /\ \A m \in Mutexes :
       /\ locked[m] <=> (\E t \in Tasks : tmutex[t] = m /\ HoldsLock(t))
       /\ waitQueue[m] # <<>> => locked[m]
  /\ \A t \in Tasks :
       /\ pc[t] = "done" => result[t] = outcome[t] /\ outcome[t] # NoOutcome
       /\ pc[t] # "done" => result[t] = NoOutcome

\* an operation threw, its caller got that error, and a waiter queued behind
\* it now owns the lock
C4_Witness ==
  \E t, u \in Tasks :
    /\ t # u /\ tmutex[t] = tmutex[u]
    /\ pc[t] = "done" /\ result[t].kind = "err" /\ result[t].val \in ErrVals
    /\ qpos[u] > 0 /\ HoldsLock(u)

(***************************************************************************)
(* C5: waiters are granted the lock in FIFO order: of two calls on one     *)
(* lock that both had to queue, the one that invoked acquire first (the    *)
(* lower call number) starts first.                                        *)
(***************************************************************************)
C5_FifoGrant ==
  \A a, b \in Tasks :
    (a < b /\ tmutex[a] = tmutex[b] /\ qpos[a] > 0 /\ qpos[b] > 0)
      => (Started(b) \/ pc[b] = "granted" => Started(a))

\* a call that queued behind another waiter has been started
C5_Witness ==
  \E b \in Tasks : qpos[b] >= 2 /\ Started(b)

(***************************************************************************)
(* The framer run on the whole stream delivered as one single chunk.       *)
(***************************************************************************)
SingleChunkFrames(bytes) ==
  IF bytes = <<>> THEN <<>> ELSE DataHandler(FreshFramer, bytes).frames

FrameData(fs) == [i \in 1..Len(fs) |-> fs[i].data]

(***************************************************************************)
(* C6: however the stream is split into chunks, the frames emitted so far  *)
(* are exactly the frames the framer emits when the same bytes arrive as   *)
(* one single chunk.                                                       *)
(***************************************************************************)
C6_ChunkingInvariant ==
  FrameData(frames) = FrameData(SingleChunkFrames(stream))

\* two frames were emitted from a stream that was cut inside a marker
C6_Witness ==
  /\ splitMarker
  /\ Len(frames) = 2
  /\ Len(stream) = MaxLen

(***************************************************************************)
(* C7: every emitted frame is a contiguous slice of the stream delivered   *)
(* so far (so its end marker has arrived), starts with FF D8 and ends with *)
(* FF D9, and the slices are in stream order and pairwise disjoint.        *)
(***************************************************************************)
C7_FramesAreDisjointSlices ==
  \A i \in 1..Len(frames) :
    LET f == frames[i]
        n == Len(f.data)
    IN /\ n >= 4
       /\ f.at >= 0 /\ f.at + n <= Len(stream)
       /\ f.data = SubSeq(stream, f.at + 1, f.at + n)
       /\ f.data[1] = FF /\ f.data[2] = D8
       /\ f.data[n - 1] = FF /\ f.data[n] = D9
       /\ i > 1 => frames[i - 1].at + Len(frames[i - 1].data) <= f.at

\* a second frame was emitted right behind the first one
C7_Witness ==
  /\ Len(frames) = 2
  /\ frames[2].at = frames[1].at + Len(frames[1].data)

(***************************************************************************)
(* The producer connections of a device: the open device sockets accepted  *)
(* for it.  Every one of them feeds the device's session, because the      *)
(* 'message' handler looks the session up by deviceId.                     *)
(***************************************************************************)
ActiveProducers(d) ==
  {s \in Sockets : role[s] = "device" /\ sdev[s] = d /\ readyState[s] = "OPEN"}

(***************************************************************************)
(* C8: at every instant a device session has at most one active producer   *)
(* connection.                                                             *)
(***************************************************************************)
C8_AtMostOneActiveProducer ==
  \A d \in RelayDevices : Cardinality(ActiveProducers(d)) <= 1

(***************************************************************************)
(* C9: a consumer attached to a session whose metadata is known receives   *)
(* the cached metadata as a metadata envelope, in the attach itself, and   *)
(* therefore before any frame envelope.                                    *)
(***************************************************************************)
C9_LateJoinerGetsMetadataFirst ==
  \A b \in Sockets :
    (role[b] = "browser" /\ joinMeta[b] # NoMeta)
      => /\ inbox[b] # <<>>
         /\ inbox[b][1] = MetadataEnvelope(joinMeta[b])

\* a late joiner got the cached metadata and then a frame
C9_Witness ==
  \E b \in Sockets :
    /\ role[b] = "browser" /\ joinMeta[b] # NoMeta
    /\ Len(inbox[b]) >= 2
    /\ inbox[b][1].type = "metadata"
    /\ inbox[b][2].type = "frame"

(***************************************************************************)
(* C10: when the only producer of a device has sent one metadata message   *)
(* followed by frames 1..n (n >= 1), every consumer of the device that is  *)
(* open and was attached before the first frame has observed the metadata  *)
(* exactly once and the n frames in producer order.                        *)
(***************************************************************************)
ProducersOf(d) == {s \in Sockets : role[s] = "device" /\ sdev[s] = d}

\* one metadata message, then frames only
MetadataThenFrames(log) ==
  /\ log # <<>>
  /\ log[1].type = "metadata"
  /\ \A i \in 2..Len(log) : log[i].type = "frame"

MetadataIn(log) == SelectSeq(log, LAMBDA e : e.type = "metadata")

C10_MetadataOnceAndAllFrames ==
  \A d \in RelayDevices : \A p, b \in Sockets :
    ( /\ ProducersOf(d) = {p}
      /\ MetadataThenFrames(sent[p])
      /\ FramesIn(sent[p]) # <<>>
      /\ role[b] = "browser" /\ sdev[b] = d /\ readyState[b] = "OPEN"
      /\ joinFrames[b] = 0 )
      => /\ Len(MetadataIn(inbox[b])) = 1
         /\ FramesIn(inbox[b]) = FramesIn(sent[p])

(***************************************************************************)
(* The producer of a session: the device socket in the session's slot      *)
(* (0 when the session is absent or holds a browser's placeholder).        *)
(***************************************************************************)
SlotProducer(d) ==
  IF connections[d] # NoConn /\ role[connections[d].device] = "device"
  THEN connections[d].device
  ELSE 0

\* the session's producer has disconnected and no new producer has attached
ProducerDown(d) ==
  SlotProducer(d) # 0 /\ readyState[SlotProducer(d)] = "CLOSED"

OpenConsumers(d) ==
  {b \in Sockets : role[b] = "browser" /\ sdev[b] = d /\ readyState[b] = "OPEN"}

(***************************************************************************)
(* C11: in the step in which the open producer of a session disconnects,   *)
(* every open consumer of the device receives exactly one                  *)
(* device_disconnected envelope carrying the device id; and as long as the *)
(* disconnected producer stays in the slot (no new producer has attached)  *)
(* no consumer of the device receives a frame envelope.                    *)
(***************************************************************************)
C11_DisconnectNotifiedNoFrameAfter ==
  [][\A d \in RelayDevices :
       /\ (/\ SlotProducer(d) # 0
           /\ readyState[SlotProducer(d)] = "OPEN"
           /\ readyState'[SlotProducer(d)] = "CLOSED")
            => \A b \in OpenConsumers(d) :
                 inbox'[b] = Append(inbox[b], DisconnectedEnvelope(d))
       /\ (ProducerDown(d) /\ ProducerDown(d)')
            => \A b \in OpenConsumers(d) :
                 FramesIn(inbox'[b]) = FramesIn(inbox[b])]_vars

\* the step is the eviction callback deleting the session of device d
Evicts(d) ==
  /\ Len(evictTimers'[d]) < Len(evictTimers[d])
  /\ connections[d] # NoConn
  /\ connections'[d] = NoConn

(***************************************************************************)
(* C12: the eviction timer never destroys a session whose producer         *)
(* connection is open.                                                     *)
(***************************************************************************)
C12_NoEvictionWhileProducerOpen ==
  [][\A d \in RelayDevices :
       Evicts(d) => ~(SlotProducer(d) # 0 /\ readyState[SlotProducer(d)] = "OPEN")]_vars

(***************************************************************************)
(* C13: the eviction callback deletes a session only when its consumer     *)
(* set is empty and at least one full grace window has passed since the    *)
(* set last became empty.                                                  *)
(***************************************************************************)
C13_EvictionAfterFullGraceWindow ==
  [][\A d \in RelayDevices :
       Evicts(d) =>
         LET set == connections[d].browsers IN
           /\ browserSets[set] = {}
           /\ (emptiedAt[set] # NoTime => now >= emptiedAt[set] + GraceWindow)]_vars

(***************************************************************************)
(* C14: a second run of the detach of a consumer that was already removed  *)
(* leaves the session as the first run left it: consumer sets, registry    *)
(* (producer, metadata) and pending eviction timers are unchanged.         *)
(***************************************************************************)
C14_SecondDetachIsNoOp ==
  [][\A b \in Sockets :
       (closeRuns[b] >= 1 /\ closeRuns'[b] > closeRuns[b])
         => /\ browserSets' = browserSets
            /\ connections' = connections
            /\ evictTimers' = evictTimers]_vars

IsPolledFrame(e) == e.type = "frame" /\ e.data = "screenshot"

(***************************************************************************)
(* C15: a consumer receives a polled frame only after it has received the  *)
(* fallback's metadata envelope {codec 1, 1170 x 2532, 15 fps}.            *)
(***************************************************************************)
C15_PollingMetadataBeforeFrames ==
  \A b \in Sockets : \A i \in 1..Len(inbox[b]) :
    IsPolledFrame(inbox[b][i])
      => \E j \in 1..(i - 1) : inbox[b][j] = PollingMetadata

DeviceOperation(t) == tkind[t] \in {"automation", "connect", "disconnect"}

(***************************************************************************)
(* C16: an automation operation never executes at the same time as another *)
(* automation operation, a connect or a disconnect of the same device.     *)
(***************************************************************************)
C16_AutomationSerializedPerDevice ==
  \A t, u \in Tasks :
    ( /\ t # u /\ tdev[t] = tdev[u]
      /\ tkind[t] = "automation" /\ DeviceOperation(u) )
      => ~(Executing(t) /\ Executing(u))

\* the envelope handleDeviceMessage broadcasts for producer message msg
EnvelopeOf(msg) ==
  IF msg.type = "metadata"
  THEN MetadataEnvelope([width |-> msg.width, height |-> msg.height, fps |-> msg.fps])
  ELSE msg

\* consumers in the Set whose send fails
FailingConsumers(set) ==
  {f \in browserSets[set] : readyState[f] = "OPEN" /\ broken[f]}

(***************************************************************************)
(* C17: when a producer message is broadcast to a session in which the     *)
(* send to some consumer fails, every other open consumer of the session   *)
(* receives the envelope, and the session's producer, consumer set,        *)
(* metadata and frame counter change as they do without a failure.         *)
(***************************************************************************)
C17_SendFailureIsolated ==
  [][\A p \in Sockets :
       ( /\ Len(sent'[p]) = Len(sent[p]) + 1
         /\ connections[sdev[p]] # NoConn
         /\ FailingConsumers(connections[sdev[p]].browsers) # {} )
         => LET d == sdev[p]
                conn == connections[d]
                msg == sent'[p][Len(sent'[p])]
            IN /\ \A b \in browserSets[conn.browsers] :
                    (readyState[b] = "OPEN" /\ ~broken[b])
                      => inbox'[b] = Append(inbox[b], EnvelopeOf(msg))
               /\ connections'[d].device = conn.device
               /\ connections'[d].browsers = conn.browsers
               /\ browserSets' = browserSets
               /\ readyState' = readyState
               /\ IF msg.type = "metadata"
                  THEN /\ connections'[d].metadata = MetaOf(p)
                       /\ connections'[d].frameCount = conn.frameCount
                  ELSE /\ connections'[d].metadata = conn.metadata
                       /\ connections'[d].frameCount = conn.frameCount + 1]_vars

\* a consumer whose link failed is followed in its Set by a healthy consumer
\* that has been sent more frames than it
C17_Witness ==
  \E f, b \in Sockets :
    /\ f < b /\ bset[b] # NoSet /\ bset[f] = bset[b]
    /\ {f, b} \subseteq browserSets[bset[b]]
    /\ readyState[f] = "OPEN" /\ broken[f]
    /\ readyState[b] = "OPEN" /\ ~broken[b]
    /\ Len(FramesIn(inbox[b])) > Len(FramesIn(inbox[f]))

\* the sockets whose 'message' handler has just dropped a text
Dropping == {k \in Sockets : Len(rawLog'[k]) = Len(rawLog[k]) + 1
                              /\ rawLog'[k][Len(rawLog'[k])] = "bad"}

\* C18: a text from a producer or a consumer that is not valid JSON, or whose
\* type no case handles, is dropped: the step that receives it broadcasts
\* nothing, leaves the sessions, the consumer sets and every socket's state as
\* they were, and lets no exception escape the handler.
C18_BadMessageDropped ==
  [][Dropping # {} =>
       /\ inbox' = inbox
       /\ connections' = connections
       /\ browserSets' = browserSets
       /\ readyState' = readyState
       /\ ~uncaught']_vars

\* a producer whose first text was dropped is still open and its next message
\* has reached a consumer
C18_Witness ==
  \E p, b \in Sockets :
    /\ role[p] = "device" /\ readyState[p] = "OPEN"
    /\ rawLog[p] = <<"bad", "ok">>
    /\ role[b] = "browser" /\ readyState[b] = "OPEN"
    /\ sdev[b] = sdev[p]
    /\ inbox[b] # <<>>
    /\ ~uncaught

\* the open consumers of session d
AttachedOpen(d) ==
  IF connections[d] = NoConn THEN {}
  ELSE {b \in browserSets[connections[d].browsers] : readyState[b] = "OPEN"}

\* C19: stopping the relay closes the producer socket of every session and
\* detaches its consumers (the session is gone), leaves every consumer socket
\* open, and sends each of them one device_disconnected envelope.
C19_StopNotifiesOpenConsumers ==
  [][cleanups' # cleanups =>
       \A d \in RelayDevices :
         connections[d] # NoConn =>
           /\ connections'[d] = NoConn
           /\ readyState'[connections[d].device] # "OPEN"
           /\ \A b \in AttachedOpen(d) \ {connections[d].device} :
                /\ readyState'[b] = "OPEN"
                /\ inbox'[b] = Append(inbox[b], DisconnectedEnvelope(d))]_vars

\* every envelope a relay has sent or built
MetadataEnvelopes ==
  UNION {{inbox[b][i] : i \in DOMAIN inbox[b]} : b \in Sockets}
    \cup UNION {{scOut[k][i] : i \in DOMAIN scOut[k]} : k \in ScrCalls}
    \cup {created[i] : i \in DOMAIN created}

\* C20: every metadata envelope of any relay (simulator relay, polling
\* fallback, scrcpy relay, createMetadataMessage) carries a numeric codec id
\* and a codecName, and the two agree: 0 with h264, 1 with mjpeg, 2 with h265.
C20_MetadataCodecPairConsistent ==
  \A env \in MetadataEnvelopes :
    env.type = "metadata" =>
    /\ {"codec", "codecName"} \subseteq DOMAIN env
    /\ env.codec \in DOMAIN CODEC_NAME
    /\ env.codecName = CODEC_NAME[env.codec]

\* the bigint whose decimal digits are ds, as base-10000 limbs
RECURSIVE ParseDecimal(_)
ParseDecimal(ds) ==
  LET n == Len(ds)
      Val(xs) == IF xs = <<>> THEN 0
                 ELSE LET v[i \in 0..Len(xs)] == IF i = 0 THEN 0 ELSE 10 * v[i - 1] + xs[i]
                      IN v[Len(xs)]
  IN IF n <= 4 THEN <<Val(ds)>>
     ELSE <<Val(SubSeq(ds, n - 3, n))>> \o ParseDecimal(SubSeq(ds, 1, n - 4))

\* the packet envelopes of a log
PacketsIn(log) == SelectSeq(log, LAMBDA e : e.type \in {"configuration", "data"})

\* the envelope out carries the source packet src unchanged
CarriesPacket(out, src) ==
  /\ out.type = src.type
  /\ out.data = src.data
  /\ src.type = "data" =>
       /\ out.keyframe = src.keyframe
       /\ out.pts # <<>>
       /\ \A i \in DOMAIN out.pts : out.pts[i] \in 0..9
       /\ Len(out.pts) > 1 => out.pts[1] # 0
       /\ ParseDecimal(out.pts) = src.pts

\* C21: on the socket of a scrcpy stream the metadata envelope comes before any
\* packet, and after it come exactly the source packets read while the socket
\* was open, once each and in source order, with the source's keyframe flag and
\* with pts as the exact decimal string of the source's 64-bit pts.
C21_ScrcpyPacketsInOrderExactPts ==
  \A k \in ScrCalls :
    /\ scRead[k] # <<>> => scOut[k] # <<>>
    /\ scOut[k] # <<>> =>
         /\ scOut[k][1].type = "metadata"
         /\ Len(PacketsIn(scOut[k])) = Len(scRead[k])
         /\ \A i \in DOMAIN scRead[k] : CarriesPacket(PacketsIn(scOut[k])[i], scRead[k][i])

\* a stream has forwarded two data packets after a rotation, the
\* second with a pts above 2^53
C21_Witness ==
  \E k \in ScrCalls :
    /\ Len(scRead[k]) = 2
    /\ scOut[k][2].type = "sizeChanged"
    /\ scRead[k][1].type = "data" /\ scRead[k][1].pts = <<7>>
    /\ scRead[k][2].type = "data" /\ scRead[k][2].pts = <<5807, 5477, 368, 3372, 922>>
    /\ scOut[k][4].pts = <<9, 2, 2, 3, 3, 7, 2, 0, 3, 6, 8, 5, 4, 7, 7, 5, 8, 0, 7>>

\* C22: createMetadataMessage returns no envelope for a codec that is not one
\* of h264, mjpeg, h265 (it fails with InvalidCodec instead).
C22_InvalidCodecRejected ==
  \A i \in DOMAIN created :
    created[i].type = "metadata" => created[i].codecName \in CodecNames

\* C23: the codec id and name mappings round-trip: CODEC_NAME[id of name] is
\* the name for every codec name, the id of CODEC_NAME[id] is the id for every
\* id in 0..2, the ids of CODEC are those of CODEC_NAME, and
\* createMetadataMessage(name) yields exactly that id and that name.
C23_CodecIdNameRoundTrip ==
  /\ \A name \in CodecNames : CODEC_NAME[codecMap[name]] = name
  /\ \A id \in 0..2 : codecMap[CODEC_NAME[id]] = id
  /\ CODEC_NAME[CODEC.H264] = "h264"
  /\ CODEC_NAME[CODEC.MJPEG] = "mjpeg"
  /\ CODEC_NAME[CODEC.H265] = "h265"
  /\ \A i \in DOMAIN created :
       created[i].codecName \in CodecNames =>
         /\ "codec" \in DOMAIN created[i]
         /\ created[i].codec \in 0..2
         /\ CODEC_NAME[created[i].codec] = created[i].codecName

\* createMetadataMessage('h265', ...) has returned id 2 with name h265
C23_Witness ==
  /\ created # <<>>
  /\ created[1].codecName = "h265"
  /\ created[1].codec = 2

\* the sockets a ping is being sent to in this step
Pinged == {s \in Sockets : Len(PingsIn(inbox'[s])) > Len(PingsIn(inbox[s]))}

\* C24: pings go only to producer sockets and only while the socket is open;
\* once a producer socket has closed its ping interval is cleared and it gets
\* no further ping; a ping that is never answered closes no socket, evicts no
\* session and changes no session state.
C24_PingOnlyOpenProducer ==
  /\ [](\A s \in Sockets :
          /\ PingsIn(inbox[s]) # <<>> => role[s] = "device"
          /\ readyState[s] = "CLOSED" => pingTimer[s] # "active")
  /\ [][\A s \in Pinged :
          /\ role[s] = "device"
          /\ readyState[s] = "OPEN"
          /\ readyState' = readyState
          /\ connections' = connections
          /\ browserSets' = browserSets
          /\ evictTimers' = evictTimers]_vars

\* a producer was pinged, never answered, stayed in its session, and has now
\* closed with its interval cleared
C24_Witness ==
  \E p \in Sockets :
    /\ role[p] = "device"
    /\ PingsIn(inbox[p]) # <<>>
    /\ rawLog[p] = <<>>
    /\ readyState[p] = "CLOSED"
    /\ pingTimer[p] = "cleared"
    /\ connections[sdev[p]] # NoConn
    /\ connections[sdev[p]].device = p

\* C25: when startStream fails during setup the error reaches the caller and
\* afterwards the call has left neither a registered session nor a running
\* scrcpy client behind.
C25_FailedSetupLeavesNothing ==
  \A k \in ScrCalls :
    scPhase[k] = "failed" =>
      /\ sessions[scSerial[k]] # k
      /\ scClient[k] # "running"

\* C26: attaching a producer closes no consumer: every consumer socket that is
\* open and in its session's consumer set before handleDeviceConnection runs,
\* the one whose arrival created the session included, is open and in that set
\* after it.
C26_ProducerAttachKeepsConsumers ==
  [][\A p \in Sockets :
       (role[p] = "none" /\ role'[p] = "device") =>
         \A b \in Sockets :
           (role[b] = "browser" /\ readyState[b] = "OPEN" /\ bset[b] # NoSet
              /\ b \in browserSets[bset[b]]) =>
             /\ readyState'[b] = "OPEN"
             /\ b \in browserSets'[bset[b]]]_vars

\* the producer sockets a newer producer of the same device has replaced
Superseded ==
  {p \in Sockets : /\ role[p] = "device"
                   /\ connections[sdev[p]] # NoConn
                   /\ connections[sdev[p]].device # p
                   /\ role[connections[sdev[p]].device] = "device"}

\* C27: nothing from a superseded producer reaches the session: a message it
\* delivers late is neither broadcast nor cached, and its close sends nothing
\* to the consumers while the new producer is open.
C27_SupersededProducerIsSilent ==
  [][\A p \in Superseded :
       /\ sent'[p] # sent[p] => (inbox' = inbox /\ connections' = connections)
       /\ ( /\ readyState[p] # "CLOSED" /\ readyState'[p] = "CLOSED"
            /\ readyState[connections[sdev[p]].device] = "OPEN" )
          => inbox' = inbox]_vars

\* the polled frames of a log
PolledIn(log) == SelectSeq(log, IsPolledFrame)

\* C28: once a producer is attached for a device and open, no frame of the
\* polling fallback is broadcast to the device's consumers.
C28_NoPolledFrameWhileProducerAttached ==
  [][\A b \in Sockets :
       Len(PolledIn(inbox'[b])) > Len(PolledIn(inbox[b])) =>
         ~\E p \in Sockets :
            /\ role[p] = "device"
            /\ connections[sdev[b]].device = p
            /\ readyState[p] = "OPEN"]_vars

\* the polling timers of device d that exist and have not been cleared
LiveTimers(d) == {k \in PollCalls : pollDev[k] = d /\ pollPhase[k] = "running"}

\* C29: a device has at most one polling timer at any time, and the timer it
\* has is the one pollingIntervals holds, so that stopPollingFallback or the
\* close of the socket that started polling clears every timer.
C29_AtMostOnePollingTimer ==
  \A d \in RelayDevices :
    /\ Cardinality(LiveTimers(d)) <= 1
    /\ \A k \in LiveTimers(d) : pollingIntervals[d] = k

\* C30: isDeviceConnected(d) is true, and getConnectedDevices() lists d, only
\* if a producer socket has been attached for d and is open; a session that
\* holds only consumers is reported as not connected.
C30_ConnectedMeansOpenProducer ==
  \A d \in RelayDevices :
    (IsDeviceConnected(d) \/ d \in GetConnectedDevices) =>
      \E p \in Sockets :
        /\ role[p] = "device" /\ sdev[p] = d
        /\ connections[d].device = p
        /\ readyState[p] = "OPEN"

\* C31: a command envelope of a consumer is delivered only to a producer
\* socket, never to a consumer socket, the sender included.
C31_CommandOnlyToProducer ==
  \A s \in Sockets : \A i \in DOMAIN inbox[s] :
    inbox[s][i].type = "command" => role[s] = "device"

\* C32: when the framer is not inside a frame and the buffer holds no FF D8
\* start marker, only the last byte of the buffer is retained.
C32_RetainsOnlyLastByte ==
  (~frameStarted /\ FindJpegStart(buffer) = -1) => Len(buffer) <= 1

\* C33: for each serial at most one scrcpy client is live: the running client
\* of every stream that is piping is the client of the session registered
\* under its serial.
C33_OneLiveClientPerSerial ==
  \A k \in ScrCalls :
    (scPhase[k] = "piping" /\ scClient[k] = "running") => sessions[scSerial[k]] = k

\* C34: once the pipe of a scrcpy stream has left its loop (stream ended,
\* read failed, or socket found not open) the relay eventually is stopped:
\* its client is closed and its session is no longer registered.
C34_PipeEndLeadsToStopped ==
  \A k \in ScrCalls :
    (scPhase[k] = "draining")
      ~> (scPhase[k] = "stopped" /\ scClient[k] = "closed"
          /\ sessions[scSerial[k]] # k)

\* C35: whenever MjpegStreamClient has emitted 'error' for a device, the
\* device is no longer in activeConnections (isConnected is false).
C35_ErrorLeavesDisconnected ==
  (emitted # <<>> /\ emitted[Len(emitted)].type = "error")
    => ~IsConnected(emitted[Len(emitted)].udid)

\* C37: when the capture process of a device has exited, that device's file
\* watcher is closed and the device is removed from activeWatchers.
C37_ExitClosesWatcher ==
  \A c \in Captures :
    capProc[c] = "exited" =>
      /\ watcher[c] # "open"
      /\ (capUdid[c] \in activeWatchers => IsCapturing(capUdid[c]))

\* C36: after any sequence of startMirroring and stopMirroring calls at most
\* one capture path, the MJPEG stream or the QuickTime capture, is running
\* for a device.
C36_AtMostOneCapturePath ==
  \A d \in Devices : ~(IsConnected(d) /\ IsCapturing(d))

\* C38: every withDeviceLock call eventually runs its operation provided the
\* operations that hold the lock terminate: no waiter is lost, and a lock is
\* never left held with no call that holds it.
C38_LockedHasHolder ==
  \A m \in DOMAIN locked :
    locked[m] => \E t \in Tasks :
                   tmutex[t] = m /\ pc[t] \in {"granted", "running", "settled"}

C38_EveryCallRuns ==
  /\ []C38_LockedHasHolder
  /\ \A t \in Tasks : (pc[t] \in {"waiting", "granted"}) ~> (pc[t] = "running")

C38_Witness ==
  \E t \in Tasks : qpos[t] > 0 /\ pc[t] = "running"

\* C39: after cleanup() the service holds no session and no polling timer,
\* and none appears later when no client connects and no polling fallback
\* is asked for after the cleanup.
C39_NothingAfterCleanup ==
  cleanups > 0 =>
    \A d \in RelayDevices : connections[d] = NoConn /\ pollingIntervals[d] = 0

\* C40: retryWithBackoff terminates when fn terminates; it calls fn at most
\* maxRetries+1 times, returns the result of the first successful call and
\* calls fn no more, waits baseDelay*2^k before retry k+1, and when every
\* call failed it throws the error of the last call.
C40_FnCalls == Len(rtOutcomes) + (IF rtPhase = "calling" THEN 1 ELSE 0)

C40_RetryInvariant ==
  /\ C40_FnCalls <= rtMax + 1
  /\ \A i \in DOMAIN rtOutcomes :
       rtOutcomes[i].kind = "ok" => (i = Len(rtOutcomes) /\ rtPhase = "returned")
  /\ rtPhase = "returned" =>
       (rtOutcomes # <<>> /\ rtResult = rtOutcomes[Len(rtOutcomes)] /\ rtResult.kind = "ok")
  /\ \A k \in DOMAIN rtDelays :
       /\ rtDelays[k] = rtBase * 2^(k - 1)
       /\ k <= C40_FnCalls
  /\ rtPhase \in {"calling", "returned", "thrown"} => Len(rtDelays) = C40_FnCalls - 1
  /\ rtPhase = "thrown" =>
       /\ Len(rtOutcomes) = rtMax + 1
       /\ rtResult = rtOutcomes[Len(rtOutcomes)]
       /\ rtResult.kind = "err"

C40_RetryTerminates ==
  /\ []C40_RetryInvariant
  /\ (rtPhase \in {"calling", "sleeping"}) ~> (rtPhase \in {"returned", "thrown"})

C40_Witness ==
  /\ rtPhase = "thrown"
  /\ rtMax = 3
  /\ Len(rtDelays) = 3

=============================================================================
